---- MODULE Spec2Model ----
(***************************************************************************)
(* Time Tracker extension: the background service worker (session tracker  *)
(* and limit evaluator) and the storage utilities (serialised mutators of  *)
(* the per-day records).                                                    *)
(*                                                                          *)
(* Times are milliseconds, as Date.now() gives them.  A URL is a record    *)
(* [scheme, www, host, qdomain, qlimit]: the scheme, whether the hostname  *)
(* starts with "www.", the rest of the hostname and the two query          *)
(* parameters of the block page.  A day key is the number of the local     *)
(* calendar day.  An absent value (undefined, null, "") is the falsy value *)
(* of its type: NoUrl, NoDomain, NoFavicon, NoTime.                        *)
(***************************************************************************)
EXTENDS Integers, Sequences, FiniteSets, TLC

VARIABLES
    storage,      \* chrome.storage.local: one record of all the keys
    lastVisit,    \* the service worker's _lastVisit
    activeTab,    \* the active tab of the current window, as chrome.tabs sees it
    notified,     \* chrome.notifications.create calls: <<kind, domain, day>> -> count
    now,          \* Date.now()
    tzOffset,     \* local time = UTC + tzOffset
    last,         \* history: what the last step's handler did
    session,      \* history: time written for the session opened at session.start
    visitBase,    \* history: visit total of _lastVisit.domain before its counted visit
    advances,     \* history: the number of clock advances so far
    events,       \* history: the number of events handled and settings changed so far
    mutex,        \* storage.ts _mutex: the caller whose lock promise it holds
    callers,      \* the withLock calls in flight, one record per caller
    dashboard,    \* the dashboard page's component state
    handlers,     \* the listeners in flight, each with its position and locals
    report        \* what the last query of the stored data returned

\* the state outside the service worker run one listener at a time
pages == <<dashboard, handlers, report>>

vars == <<storage, lastVisit, activeTab, notified, now, tzOffset, last, session,
          visitBase, advances, events, mutex, callers, dashboard, handlers,
          report>>

(***************************************************************************)
(* Bounds of the model.                                                    *)
(***************************************************************************)
MaxAdvances == 3      \* clock advances per behaviour
MaxEvents == 3        \* events handled and settings changed per behaviour
NumCallers == 3       \* withLock callers in the serialisation model
MaxChecks == 4        \* operations per behaviour of the limit-evaluator model
MaxCommits == 1       \* commits of time per behaviour of the reports model
MaxCalls == 4         \* calls per behaviour of the model of the tracker's functions
MaxHandlers == 2      \* listeners in flight together in the model of their interleaving
MaxTicks == 3         \* alarm ticks per behaviour of the model of a long session

(***************************************************************************)
(* Program constants.                                                      *)
(***************************************************************************)
NoTime == 0                     \* an absent (falsy) _startTime
MaxEventMs == 300000            \* the 5-minute cap on one commit
VisitDebounceMs == 5000         \* the visit debounce window
MsPerSecond == 1000
MsPerDay == 86400000
DefaultTrackingDelaySeconds == 15

blockedPrefixes == {"chrome", "chrome-extension", "about", "edge"}

NoDomain == ""
NoUrl == [scheme |-> "", www |-> FALSE, host |-> "", qdomain |-> "", qlimit |-> 0]
NoFavicon == [www |-> FALSE, host |-> ""]
NoTab == [id |-> 0, url |-> NoUrl]

Url(scheme, www, host) ==
    [scheme |-> scheme, www |-> www, host |-> host, qdomain |-> "", qlimit |-> 0]

\* chrome.runtime.getURL(`blocked.html?domain=${domain}&limit=${limit.timeLimit}`)
blockedUrl(domain, timeLimit) ==
    [scheme |-> "chrome-extension", www |-> FALSE, host |-> "extension-id",
     qdomain |-> domain, qlimit |-> timeLimit]

\* new URL(url) throws on a string that is no URL
parses(url) == url.scheme # "" /\ url.scheme # "garbage"

\* the hostname without a leading "www.", or nothing for a browser-internal page
getDomain(url) ==
    IF url = NoUrl THEN NoDomain
    ELSE IF url.scheme \in blockedPrefixes THEN NoDomain
    ELSE IF ~parses(url) THEN NoDomain
    ELSE url.host

\* the favicon service's URL for the full hostname ("www." kept)
getFavicon(url) ==
    IF parses(url) THEN [www |-> url.www, host |-> url.host] ELSE NoFavicon

\* the local calendar day of instant t
getTodayKey(t) == (t + tzOffset) \div MsPerDay

(***************************************************************************)
(* Storage accessors.                                                      *)
(***************************************************************************)
Includes(seq, x) == \E i \in 1..Len(seq) : seq[i] = x

DEFAULT_SETTINGS ==
    [trackingDelaySeconds |-> DefaultTrackingDelaySeconds, theme |-> "blue-500"]

NoSettings == [trackingDelaySeconds |-> 0, theme |-> ""]

getSettings(st) == IF st.settings = NoSettings THEN DEFAULT_SETTINGS ELSE st.settings

NoNotifications == [sent80 |-> FALSE, sent100 |-> FALSE]

\* data[today] || {}
TodayData(st, day) == IF day \in DOMAIN st.daily THEN st.daily[day] ELSE << >>

\* mutant: the set replaces the stored days by the one written
SetDayAlone(st, day, todayData) ==
    [st EXCEPT !.daily = (day :> todayData)]

\* setStorageData({ [today]: todayData })
SetDay(st, day, todayData) ==
    [st EXCEPT !.daily = (day :> todayData) @@ st.daily]

(***************************************************************************)
(* The mutators of the per-day records.  Each is a function run under      *)
(* withLock: it reads [today, whitelist] in one get, and writes today's    *)
(* map back in one set.  The ...Fn operators compute, from the data read,  *)
(* the write the function makes (or that it makes none).                   *)
(***************************************************************************)
NoWrite == [write |-> FALSE, day |-> 0, data |-> << >>]

DayWrite(day, todayData) == [write |-> TRUE, day |-> day, data |-> todayData]

\* whitelist.includes(domain)
Whitelisted(st, domain) == Includes(st.whitelist, domain)

\* mutant: saveTime does not look at the whitelist
saveTimeSkipsNoWhitelist(st, domain, duration) ==
    \/ domain = NoDomain
    \/ duration <= 0

\* mutant: saveTime does not look at the sign of the duration
saveTimeSkipsAnyDuration(st, domain, duration) ==
    \/ domain = NoDomain
    \/ Whitelisted(st, domain)

\* the guards in front of saveTime's write
saveTimeSkips(st, domain, duration) ==
    \/ domain = NoDomain
    \/ duration <= 0
    \/ Whitelisted(st, domain)

\* A record's optional notifications field is carried as NoNotifications
\* while absent: a record the mutators create has neither flag set.
saveTimeFn(st, domain, duration, favicon, t) ==
    LET today == getTodayKey(t)
        todayData == TodayData(st, today)
        created == [time |-> 0, favicon |-> favicon, lastVisited |-> t,
                    visitCount |-> 0, notifications |-> NoNotifications]
        rec == IF domain \in DOMAIN todayData THEN todayData[domain] ELSE created
        updated == [rec EXCEPT !.time = @ + duration,
                               !.lastVisited = t,
                               !.favicon = IF favicon # NoFavicon THEN favicon ELSE @]
    IN  IF saveTimeSkips(st, domain, duration) THEN NoWrite
        ELSE DayWrite(today, (domain :> updated) @@ todayData)

\* the guard in front of incrementVisitCount's write
incrementVisitCountSkips(st, domain) == Whitelisted(st, domain)

incrementVisitCountFn(st, domain, favicon, t) ==
    LET today == getTodayKey(t)
        todayData == TodayData(st, today)
        created == [time |-> 0, favicon |-> favicon, lastVisited |-> t,
                    visitCount |-> 1, notifications |-> NoNotifications]
        updated == [todayData[domain] EXCEPT
                        !.visitCount = @ + 1,
                        !.lastVisited = t,
                        !.favicon = IF favicon # NoFavicon THEN favicon ELSE @]
    IN  IF incrementVisitCountSkips(st, domain) THEN NoWrite
        ELSE IF domain \notin DOMAIN todayData
             THEN DayWrite(today, (domain :> created) @@ todayData)
             ELSE DayWrite(today, (domain :> updated) @@ todayData)

\* Sets the given notification flags on today's record of the domain, the
\* record being created with the default constants when it is missing.
updateNotificationStateFn(st, domain, flag, t) ==
    LET today == getTodayKey(t)
        todayData == TodayData(st, today)
        created == [time |-> 0, favicon |-> NoFavicon, lastVisited |-> t,
                    visitCount |-> 0, notifications |-> NoNotifications]
        rec == IF domain \in DOMAIN todayData THEN todayData[domain] ELSE created
        updated == [rec EXCEPT !.notifications =
                        IF flag = "sent80" THEN [@ EXCEPT !.sent80 = TRUE]
                                           ELSE [@ EXCEPT !.sent100 = TRUE]]
    IN  DayWrite(today, (domain :> updated) @@ todayData)

\* the storage after the write a mutator's function makes
ApplyWrite(st, wr) == IF wr.write THEN SetDay(st, wr.day, wr.data) ELSE st

\* the storage after a saveTime of the duration for a.com at the start of the
\* clock: time committed earlier in the day
withUsedTime(st, duration) ==
    ApplyWrite(st, saveTimeFn(st, "a.com", duration, NoFavicon, MsPerDay - 20000))

(***************************************************************************)
(* The mutators as the service worker's handlers see them when each call   *)
(* is awaited before the next is made: the function runs alone, start to   *)
(* end.  The world w is [st, lv, tab, notified]: the storage, _lastVisit,  *)
(* the active tab and the notifications created.                           *)
(***************************************************************************)
saveTime(w, domain, duration, favicon, t) ==
    [w EXCEPT !.st = ApplyWrite(@, saveTimeFn(@, domain, duration, favicon, t))]

incrementVisitCount(w, domain, favicon, t) ==
    [w EXCEPT !.st = ApplyWrite(@, incrementVisitCountFn(@, domain, favicon, t))]

updateNotificationState(w, domain, flag, t) ==
    [w EXCEPT !.st = ApplyWrite(@, updateNotificationStateFn(@, domain, flag, t))]

HasLimit(st, domain) == domain \in DOMAIN st.limits

getLimit(st, domain) == st.limits[domain]

\* today's time and notification flags of the domain, 0 and unsent when no record
getDailyUsage(st, domain, t) ==
    LET todayData == TodayData(st, getTodayKey(t))
    IN  IF domain \in DOMAIN todayData
        THEN [time |-> todayData[domain].time,
              notifications |-> todayData[domain].notifications]
        ELSE [time |-> 0, notifications |-> NoNotifications]

(***************************************************************************)
(* The service worker: limit evaluator and session tracker.                *)
(***************************************************************************)
Count(f, k) == IF k \in DOMAIN f THEN f[k] ELSE 0

\* chrome.notifications.create for the domain's threshold on day getTodayKey(t)
Notify(w, kind, domain, t) ==
    LET k == <<kind, domain, getTodayKey(t)>>
    IN  [w EXCEPT !.notified = (k :> (Count(@, k) + 1)) @@ @]

\* totalTime >= limit.timeLimit * 0.8, exact on integers
is80Percent(totalTime, limit) == 10 * totalTime >= 8 * limit.timeLimit

is100Percent(totalTime, limit) == totalTime >= limit.timeLimit

\* fires80 if the sent80 flag of the day were not consulted
fires80Resend(limit, usage, totalTime) ==
    /\ limit.notify80
    /\ is80Percent(totalTime, limit)
    /\ ~is100Percent(totalTime, limit)

\* fires80 if it were not held back once the limit itself is reached
fires80PastLimit(limit, usage, totalTime) ==
    /\ limit.notify80
    /\ is80Percent(totalTime, limit)
    /\ ~usage.notifications.sent80

\* fires100 if the sent100 flag of the day were not consulted
fires100Resend(limit, usage, totalTime) ==
    /\ limit.notify100
    /\ is100Percent(totalTime, limit)

\* tabOnDomain if the tab's domain were not compared with the limit's
tabOnAnyDomain(tab, domain) ==
    /\ tab # NoTab
    /\ tab.id # 0
    /\ tab.url # NoUrl

fires80(limit, usage, totalTime) ==
    /\ limit.notify80
    /\ is80Percent(totalTime, limit)
    /\ ~usage.notifications.sent80
    /\ ~is100Percent(totalTime, limit)

fires100(limit, usage, totalTime) ==
    /\ limit.notify100
    /\ is100Percent(totalTime, limit)
    /\ ~usage.notifications.sent100

\* tab && tab.id && tab.url && getDomain(tab.url) === domain
tabOnDomain(tab, domain) ==
    /\ tab # NoTab
    /\ tab.id # 0
    /\ tab.url # NoUrl
    /\ getDomain(tab.url) = domain

blocksTab(limit, totalTime, tab, domain) ==
    /\ limit.blockOnLimit
    /\ is100Percent(totalTime, limit)
    /\ tabOnDomain(tab, domain)

\* chrome.tabs.update(tab.id, { url })
TabsUpdate(w, url) == [w EXCEPT !.tab.url = url]

checkLimits(w, domain, timeToAdd, t) ==
    IF ~HasLimit(w.st, domain) THEN w
    ELSE
    LET limit == getLimit(w.st, domain)
        usage == getDailyUsage(w.st, domain, t)
        totalTime == usage.time + timeToAdd
        w1 == IF fires80(limit, usage, totalTime)
              THEN updateNotificationState(Notify(w, "80", domain, t), domain, "sent80", t)
              ELSE w
        w2 == IF fires100(limit, usage, totalTime)
              THEN updateNotificationState(Notify(w1, "100", domain, t), domain, "sent100", t)
              ELSE w1
    IN  IF blocksTab(limit, totalTime, w2.tab, domain)
        THEN TabsUpdate(w2, blockedUrl(domain, limit.timeLimit))
        ELSE w2

\* mutant: a session of exactly the minimum dwell is dropped
acceptsDurationStrict(domain, duration, minDuration) ==
    domain # NoDomain /\ duration > minDuration /\ duration <= MaxEventMs

\* domain && duration >= minDuration && duration <= 300000
acceptsDuration(domain, duration, minDuration) ==
    domain # NoDomain /\ duration >= minDuration /\ duration <= MaxEventMs

\* mutant: only the URL is looked at
noSessionUrlOnly(st) == st.currentUrl = NoUrl

\* !data._currentUrl || !data._startTime
noSession(st) == st.currentUrl = NoUrl \/ st.startTime = NoTime

commitTime(w, t) ==
    IF noSession(w.st) THEN w
    ELSE
    LET duration == t - w.st.startTime
        domain == getDomain(w.st.currentUrl)
        minDuration == getSettings(w.st).trackingDelaySeconds * MsPerSecond
    IN  IF acceptsDuration(domain, duration, minDuration)
        THEN checkLimits(saveTime(w, domain, duration, w.st.favicon, t), domain, 0, t)
        ELSE w

stopTracking(w) ==
    [w EXCEPT !.st.currentUrl = NoUrl, !.st.startTime = NoTime, !.st.favicon = NoFavicon]

\* startTracking's early return: the domain's blocking limit is used up and
\* there is an active tab to redirect
blockedOnNavigation(w, domain, t) ==
    /\ HasLimit(w.st, domain)
    /\ getLimit(w.st, domain).blockOnLimit
    /\ getDailyUsage(w.st, domain, t).time >= getLimit(w.st, domain).timeLimit
    /\ w.tab # NoTab
    /\ w.tab.id # 0

\* mutant: a visit exactly 5000 ms after the last one is still a duplicate
isDuplicateInclusive(lv, domain, t) ==
    domain = lv.domain /\ t - lv.timestamp <= VisitDebounceMs

\* domain === _lastVisit.domain && now - _lastVisit.timestamp < 5000
isDuplicate(lv, domain, t) ==
    domain = lv.domain /\ t - lv.timestamp < VisitDebounceMs

\* mutant: the visit is counted whether trackVisit is given or not
beforeSetCountsAlways(w, url, trackVisit, t) ==
    LET domain == getDomain(url)
        counted == IF ~isDuplicate(w.lv, domain, t)
                   THEN [incrementVisitCount(w, domain, getFavicon(url), t)
                            EXCEPT !.lv = [domain |-> domain, timestamp |-> t]]
                   ELSE w
    IN  IF domain = NoDomain THEN [w |-> stopTracking(w), sets |-> FALSE]
        ELSE IF blockedOnNavigation(w, domain, t)
        THEN [w |-> TabsUpdate(w, blockedUrl(domain,
                                    getLimit(w.st, domain).timeLimit)),
              sets |-> FALSE]
        ELSE [w |-> counted, sets |-> TRUE]

\* startTracking up to its chrome.storage.local.set: the world it has made
\* by then, and whether it goes on to the set
beforeSet(w, url, trackVisit, t) ==
    LET domain == getDomain(url)
        counted == IF trackVisit /\ ~isDuplicate(w.lv, domain, t)
                   THEN [incrementVisitCount(w, domain, getFavicon(url), t)
                            EXCEPT !.lv = [domain |-> domain, timestamp |-> t]]
                   ELSE w
    IN  IF domain = NoDomain THEN [w |-> stopTracking(w), sets |-> FALSE]
        ELSE IF blockedOnNavigation(w, domain, t)
        THEN [w |-> TabsUpdate(w, blockedUrl(domain,
                                    getLimit(w.st, domain).timeLimit)),
              sets |-> FALSE]
        ELSE [w |-> counted, sets |-> TRUE]

\* chrome.storage.local.set({ _currentUrl, _startTime, _favicon })
setSession(w, url, t) ==
    [w EXCEPT !.st.currentUrl = url,
              !.st.startTime = t,
              !.st.favicon = getFavicon(url)]

startTracking(w, url, trackVisit, t) ==
    LET made == beforeSet(w, url, trackVisit, t)
    IN  IF made.sets THEN setSession(made.w, url, t) ELSE made.w

\* chrome.storage.local.remove([STORAGE_KEYS.START_TIME])
removeStartTime(w) == [w EXCEPT !.st.startTime = NoTime]

(***************************************************************************)
(* Measures of the stored data, used by the history variables and by the   *)
(* properties.                                                             *)
(***************************************************************************)
RECURSIVE SumOf(_, _)
\* the sum of f over the finite domain S of f
SumOf(f, S) ==
    IF S = {} THEN 0
    ELSE LET x == CHOOSE y \in S : TRUE IN f[x] + SumOf(f, S \ {x})

Domains == {"a.com", "b.com"}

RecordKeys(st) == {<<day, d>> \in (DOMAIN st.daily) \X Domains :
                        d \in DOMAIN st.daily[day]}

TimeOn(st, day, domain) ==
    IF <<day, domain>> \in RecordKeys(st) THEN st.daily[day][domain].time ELSE 0

VisitsOn(st, day, domain) ==
    IF <<day, domain>> \in RecordKeys(st) THEN st.daily[day][domain].visitCount ELSE 0

TotalTime(st) ==
    SumOf([k \in RecordKeys(st) |-> st.daily[k[1]][k[2]].time], RecordKeys(st))

VisitsAll(st, domain) ==
    SumOf([day \in DOMAIN st.daily |-> VisitsOn(st, day, domain)], DOMAIN st.daily)

(***************************************************************************)
(* The inputs of the model.                                                *)
(***************************************************************************)
UrlA == Url("https", TRUE, "a.com")         \* https://www.a.com/...
UrlB == Url("https", FALSE, "b.com")        \* https://b.com/...
UrlInternal == Url("chrome", FALSE, "newtab")

NavUrls == {UrlA, UrlB, UrlInternal}

Tab(url) == [id |-> 1, url |-> url]

\* clock advances: 999 + 1 = 1000, 999 + 4000 = 4999, 999 + 1 + 4000 = 5000,
\* 999 + 1 + 299000 = 300000, 4000 + 299000 > 300000: both sides of a minimum
\* dwell of 1 s, of the debounce window and of the 5-minute cap are hit
Deltas == {1, 999, 4000, 299000}

DelayChoices == {1}

\* the clock starts 20 s before local midnight of day 1
StartOfClock == MsPerDay - 20000

LimitA == [timeLimit |-> 10000, notify80 |-> TRUE, notify100 |-> TRUE,
           blockOnLimit |-> TRUE]

InitStorage ==
    [currentUrl |-> NoUrl, startTime |-> NoTime, favicon |-> NoFavicon,
     whitelist |-> << >>, settings |-> NoSettings, limits |-> << >>,
     daily |-> << >>]

NoLastVisit == [domain |-> NoDomain, timestamp |-> 0]

NoVisitBase == [domain |-> NoDomain, before |-> 0, counted |-> FALSE]

NoLast ==
    [wrote |-> 0, skipped |-> FALSE, nav |-> NoDomain, blocked |-> FALSE,
     checked |-> NoDomain, fired80 |-> FALSE, fired100 |-> FALSE,
     redirected |-> FALSE]

World == [st |-> storage, lv |-> lastVisit, tab |-> activeTab, notified |-> notified]

\* useState(15), useState("blue-500")
DashboardClosed ==
    [trackingDelay |-> DefaultTrackingDelaySeconds, themeId |-> "blue-500"]

NoReport == [fn |-> "none"]

PagesIdle ==
    /\ dashboard = DashboardClosed
    /\ handlers = << >>
    /\ report = NoReport

LockIdle ==
    /\ mutex = 0
    /\ callers = << >>

Init ==
    /\ storage = [InitStorage EXCEPT !.limits = "a.com" :> LimitA]
    /\ lastVisit = NoLastVisit
    /\ activeTab = Tab(UrlInternal)
    /\ notified = << >>
    /\ now = StartOfClock
    /\ tzOffset = 0
    /\ last = NoLast
    /\ session = [start |-> NoTime, written |-> 0]
    /\ visitBase = NoVisitBase
    /\ advances = 0
    /\ events = 0
    /\ LockIdle
    /\ PagesIdle

(***************************************************************************)
(* A handler of the service worker, run to completion: wEnv is the world  *)
(* when the event is delivered, wCommit the world after the handler's      *)
(* commitTime (wEnv when it calls none) and wFinal the world it leaves.    *)
(* nav is the domain startTracking was called for with trackVisit = true.  *)
(***************************************************************************)
\* the handler's commitTime called saveTime, which wrote nothing
SkippedCommit(wEnv, wCommit) ==
    /\ wEnv.st.currentUrl # NoUrl
    /\ wEnv.st.startTime # NoTime
    /\ acceptsDuration(getDomain(wEnv.st.currentUrl), now - wEnv.st.startTime,
                       getSettings(wEnv.st).trackingDelaySeconds * MsPerSecond)
    /\ TotalTime(wCommit.st) = TotalTime(wEnv.st)

Handle(kind, wEnv, wCommit, wFinal, nav) ==
    LET wrote == TotalTime(wCommit.st) - TotalTime(wEnv.st)
        s0 == wEnv.st.startTime
        sess == IF wrote > 0
                THEN [start |-> s0,
                      written |-> (IF session.start = s0 THEN session.written ELSE 0)
                                    + wrote]
                ELSE session
    IN  /\ storage' = wFinal.st
        /\ lastVisit' = wFinal.lv
        /\ activeTab' = wFinal.tab
        /\ notified' = wFinal.notified
        /\ last' = [NoLast EXCEPT
                        !.wrote = wrote,
                        !.skipped = SkippedCommit(wEnv, wCommit),
                        !.nav = nav,
                        !.blocked = (nav # NoDomain
                                     /\ blockedOnNavigation(wCommit, nav, now))]
        /\ session' = IF wFinal.st.startTime = NoTime
                      THEN [start |-> NoTime, written |-> 0]
                      ELSE IF wFinal.st.startTime = s0 /\ s0 # now THEN sess
                      ELSE [start |-> wFinal.st.startTime, written |-> 0]
        /\ visitBase' = IF wFinal.lv # wEnv.lv
                        THEN [domain |-> wFinal.lv.domain,
                              before |-> VisitsAll(wEnv.st, wFinal.lv.domain),
                              counted |-> ~Whitelisted(wEnv.st, wFinal.lv.domain)]
                        ELSE IF wFinal.lv = NoLastVisit THEN NoVisitBase
                        ELSE visitBase
        /\ events' = events + 1
        /\ UNCHANGED <<now, tzOffset, advances, mutex, callers, pages>>

\* time passes
AdvanceTime(delta) ==
    /\ advances < MaxAdvances
    /\ now' = now + delta
    /\ advances' = advances + 1
    /\ last' = NoLast
    /\ UNCHANGED <<storage, lastVisit, activeTab, notified, tzOffset, session,
                   visitBase, events, mutex, callers, pages>>

\* chrome.tabs.onActivated: the user switched to a tab showing url; by the time
\* the handler looks the tab up it may be closed, and a tab may have no URL
TabActivated(url, closed) ==
    /\ events < MaxEvents
    /\ LET wEnv == IF closed THEN World ELSE [World EXCEPT !.tab = Tab(url)]
           wCommit == commitTime(wEnv, now)
           tracks == ~closed /\ url # NoUrl
       IN  Handle("tabActivated", wEnv, wCommit,
                  IF tracks THEN startTracking(wCommit, url, TRUE, now) ELSE wCommit,
                  IF tracks THEN getDomain(url) ELSE NoDomain)

\* chrome.tabs.onUpdated with status "complete" for the active tab
TabUpdated(url) ==
    /\ events < MaxEvents
    /\ activeTab # NoTab
    /\ LET wEnv == [World EXCEPT !.tab.url = url]
           wCommit == commitTime(wEnv, now)
       IN  Handle("tabUpdated", wEnv, wCommit,
                  startTracking(wCommit, url, TRUE, now), getDomain(url))

\* chrome.webNavigation.onHistoryStateUpdated of a frame of a tab
HistoryStateUpdated(url, frameId, tabState) ==
    /\ events < MaxEvents
    /\ activeTab # NoTab
    /\ IF frameId = 0 /\ tabState = "active"
       THEN LET wEnv == [World EXCEPT !.tab.url = url]
                wCommit == commitTime(wEnv, now)
            IN  Handle("historyStateUpdated", wEnv, wCommit,
                       startTracking(wCommit, url, TRUE, now), getDomain(url))
       ELSE Handle("historyIgnored", World, World, World, NoDomain)

\* chrome.windows.onFocusChanged with WINDOW_ID_NONE
WindowBlurred ==
    /\ events < MaxEvents
    /\ LET wCommit == commitTime(World, now)
       IN  Handle("windowBlurred", World, wCommit, removeStartTime(wCommit), NoDomain)

\* chrome.windows.onFocusChanged with a window: tab is what the query for the
\* window's active tab gives
WindowFocused(tab) ==
    /\ events < MaxEvents
    /\ LET wEnv == [World EXCEPT !.tab = tab]
       IN  Handle("windowFocused", wEnv, wEnv,
                  IF tab.url # NoUrl THEN startTracking(wEnv, tab.url, FALSE, now)
                                     ELSE wEnv,
                  NoDomain)

\* chrome.idle.onStateChanged
IdleStateChanged(newState) ==
    /\ events < MaxEvents
    /\ IF newState \in {"idle", "locked"}
       THEN LET wCommit == commitTime(World, now)
            IN  Handle("idle", World, wCommit, removeStartTime(wCommit), NoDomain)
       ELSE Handle("active", World, World,
                   IF activeTab.url # NoUrl
                   THEN startTracking(World, activeTab.url, FALSE, now) ELSE World,
                   NoDomain)

\* the alarm handler's soft check for the URL it has read: the limits of the
\* URL's domain are checked with the time since the stored _startTime added
softCheck(w, url, t) ==
    LET domain == getDomain(url)
    IN  IF domain # NoDomain /\ w.st.startTime # NoTime
        THEN checkLimits(w, domain, t - w.st.startTime, t)
        ELSE w

\* chrome.storage.local.set({ [STORAGE_KEYS.START_TIME]: Date.now() })
resetStartTime(w, t) == [w EXCEPT !.st.startTime = t]

\* mutant: the alarm handler leaves the session's start where it was
restartTimerKeepsStart(w, t) ==
    LET domain == getDomain(w.st.currentUrl)
    IN  IF domain # NoDomain /\ w.st.startTime # NoTime
        THEN checkLimits(w, domain, t - w.st.startTime, t)
        ELSE w

\* the alarm handler after its commitTime: the soft limit check, then the
\* session's start is reset
restartTimer(w, t) ==
    IF w.st.currentUrl = NoUrl THEN w
    ELSE resetStartTime(softCheck(w, w.st.currentUrl, t), t)

\* chrome.alarms.onAlarm for "time-tracker-save"
Alarm ==
    /\ events < MaxEvents
    /\ LET wCommit == commitTime(World, now)
       IN  Handle("alarm", World, wCommit, restartTimer(wCommit, now), NoDomain)

\* chrome.runtime.onStartup and onInstalled: a fresh service worker, whose
\* _lastVisit is the initial one
WorkerStarted(kind) ==
    /\ events < MaxEvents
    /\ LET wEnv == [World EXCEPT !.lv = NoLastVisit]
       IN  Handle(kind, wEnv, wEnv,
                  IF activeTab.url # NoUrl
                  THEN startTracking(wEnv, activeTab.url, FALSE, now) ELSE wEnv,
                  NoDomain)

(***************************************************************************)
(* The dashboard's changes of the configuration.                           *)
(***************************************************************************)
addToWhitelistFn(st, domain) ==
    IF ~Includes(st.whitelist, domain)
    THEN [st EXCEPT !.whitelist = Append(@, domain)]
    ELSE st

removeFromWhitelistFn(st, domain) ==
    [st EXCEPT !.whitelist = SelectSeq(@, LAMBDA d : d # domain)]

\* { ...current, ...settings } with both fields given, as the dashboard gives them
setSettingsFn(st, settings) == [st EXCEPT !.settings = settings]

Configure(st) ==
    /\ events < MaxEvents
    /\ storage' = st
    /\ last' = NoLast
    /\ events' = events + 1
    /\ UNCHANGED <<lastVisit, activeTab, notified, now, tzOffset, session,
                   visitBase, advances, mutex, callers, pages>>

addToWhitelist(domain) ==
    /\ ~Includes(storage.whitelist, domain)
    /\ Configure(addToWhitelistFn(storage, domain))

removeFromWhitelist(domain) ==
    /\ Includes(storage.whitelist, domain)
    /\ Configure(removeFromWhitelistFn(storage, domain))

\* the dashboard clamps the delay to 1..100 before it calls setSettings
setSettings(delay) ==
    /\ events < MaxEvents
    /\ Configure(setSettingsFn(storage, [trackingDelaySeconds |-> delay,
                                      theme |-> "blue-500"]))

Next ==
    \/ \E delta \in Deltas : AdvanceTime(delta)
    \/ \E url \in NavUrls \cup {NoUrl} : TabActivated(url, FALSE)
    \/ TabActivated(NoUrl, TRUE)
    \/ \E url \in NavUrls : TabUpdated(url)
    \/ \E url \in NavUrls, frameId \in {0, 1}, tabState \in {"active", "inactive"} :
            HistoryStateUpdated(url, frameId, tabState)
    \/ WindowBlurred
    \/ \E tab \in {Tab(url) : url \in NavUrls \cup {NoUrl}} \cup {NoTab} :
            WindowFocused(tab)
    \/ \E newState \in {"active", "idle", "locked"} : IdleStateChanged(newState)
    \/ Alarm
    \/ \E kind \in {"startup", "installed"} : WorkerStarted(kind)
    \/ \E domain \in Domains : addToWhitelist(domain)
    \/ \E domain \in Domains : removeFromWhitelist(domain)
    \/ \E delay \in DelayChoices : setSettings(delay)

Spec == Init /\ [][Next]_vars

(***************************************************************************)
(* Properties of the session tracker, handlers run one at a time.          *)
(***************************************************************************)
OpenSession == storage.currentUrl # NoUrl /\ storage.startTime # NoTime

\* every record but today's record of the domain is the same in both storages
SameButFor(stA, stB, day, domain) ==
    \A k \in RecordKeys(stA) \cup RecordKeys(stB) :
        k # <<day, domain>> =>
            /\ k \in RecordKeys(stA) /\ k \in RecordKeys(stB)
            /\ stA.daily[k[1]][k[2]] = stB.daily[k[1]][k[2]]

C2_WrittenAtMostElapsed ==
    session.start # NoTime => session.written <= now - session.start

C6_VisitDebounce ==
    [][\A D \in Domains :
         (/\ last'.nav = D
          /\ ~last'.blocked
          /\ lastVisit.domain = D
          /\ visitBase.domain = D
          /\ visitBase.counted
          /\ ~Whitelisted(storage, D))
         => VisitsAll(storage', D) =
                visitBase.before + (IF now - lastVisit.timestamp < 5000 THEN 1 ELSE 2)
      ]_vars

\* the second navigation came 4999 ms after the first and was not counted
C6_Witness ==
    /\ last.nav # NoDomain
    /\ last.nav = lastVisit.domain
    /\ now - lastVisit.timestamp = 4999
    /\ visitBase.counted
    /\ VisitsAll(storage, last.nav) = visitBase.before + 1

\* the second navigation came 5000 ms after the first and was counted
C6_WitnessCounted ==
    /\ last.nav # NoDomain
    /\ last.nav = lastVisit.domain
    /\ lastVisit.timestamp = now
    /\ visitBase.counted
    /\ visitBase.before >= 1

(***************************************************************************)
(* The limit evaluator on its own: checkLimits called again and again,     *)
(* each call run to completion, for any added time, between commits of     *)
(* time, changes of the active tab and a change of day.                    *)
(***************************************************************************)
LimitTime == 10000

CheckTimes == {0, 1999, 2000}

LimitDurations == {2000, 6000}

\* the domain that has a limit, and the only one time is committed to here
Limited == "a.com"

\* saveTime is not called once this much time has been committed in all
MaxUsage == 12000

LimitTabs == {NoTab, Tab(NoUrl), Tab(UrlA), Tab(UrlB)}

InitLimits ==
    /\ now = StartOfClock
    /\ tzOffset = 0
    /\ \E n80 \in BOOLEAN, n100 \in BOOLEAN, block \in BOOLEAN :
            storage = [InitStorage EXCEPT !.limits =
                        Limited :> [timeLimit |-> LimitTime, notify80 |-> n80,
                                    notify100 |-> n100, blockOnLimit |-> block]]
    /\ lastVisit = NoLastVisit
    /\ activeTab = Tab(UrlA)
    /\ notified = << >>
    /\ last = NoLast
    /\ session = [start |-> NoTime, written |-> 0]
    /\ visitBase = NoVisitBase
    /\ advances = 0
    /\ events = 0
    /\ LockIdle
    /\ PagesIdle

\* the world a step of the limit evaluator's model leaves
LimitStep(w, lst) ==
    /\ storage' = w.st
    /\ activeTab' = w.tab
    /\ notified' = w.notified
    /\ last' = lst
    /\ UNCHANGED <<lastVisit, now, tzOffset, session, visitBase, advances,
                   mutex, callers, pages>>

\* await checkLimits(domain, timeToAdd)
CallCheckLimits(domain, timeToAdd) ==
    /\ events < MaxChecks
    /\ events' = events + 1
    /\ LET w == checkLimits(World, domain, timeToAdd, now)
           today == getTodayKey(now)
       IN  LimitStep(w, [NoLast EXCEPT
                !.checked = domain,
                !.fired80 = Count(w.notified, <<"80", domain, today>>)
                                # Count(notified, <<"80", domain, today>>),
                !.fired100 = Count(w.notified, <<"100", domain, today>>)
                                # Count(notified, <<"100", domain, today>>),
                !.redirected = w.tab # activeTab])

\* await saveTime(domain, duration, favicon)
CallSaveTime(duration) ==
    /\ TotalTime(storage) + duration <= MaxUsage
    /\ LimitStep(saveTime(World, Limited, duration, NoFavicon, now), NoLast)
    /\ UNCHANGED events

\* await incrementVisitCount(domain, favicon)
CallIncrementVisitCount(domain) ==
    /\ \A other \in Domains : VisitsAll(storage, other) = 0
    /\ LimitStep(incrementVisitCount(World, domain, NoFavicon, now), NoLast)
    /\ UNCHANGED events

\* the user switches tabs, or closes the window
SwitchTab(tab) ==
    /\ tab # activeTab
    /\ LimitStep([World EXCEPT !.tab = tab], NoLast)
    /\ UNCHANGED events

\* midnight passes
NextDay ==
    /\ getTodayKey(now) = getTodayKey(StartOfClock)
    /\ now' = now + MsPerDay
    /\ last' = NoLast
    /\ UNCHANGED <<storage, lastVisit, activeTab, notified, tzOffset, session,
                   visitBase, advances, events, mutex, callers, pages>>

NextLimits ==
    \/ \E domain \in Domains, timeToAdd \in CheckTimes :
            CallCheckLimits(domain, timeToAdd)
    \/ \E duration \in LimitDurations : CallSaveTime(duration)
    \/ \E domain \in Domains : CallIncrementVisitCount(domain)
    \/ \E tab \in LimitTabs : SwitchTab(tab)
    \/ NextDay

SpecLimits == InitLimits /\ [][NextLimits]_vars

\* today's committed time of the domain, read from the stored record
UsedToday(domain) == TimeOn(storage, getTodayKey(now), domain)

\* the notification flag of today's stored record of the domain
SentToday(st, domain, flag) ==
    LET todayData == TodayData(st, getTodayKey(now))
    IN  domain \in DOMAIN todayData /\ todayData[domain].notifications[flag]

\* the notifications of the kind created so far for the domain today
CreatedToday(n, kind, domain) == Count(n, <<kind, domain, getTodayKey(now)>>)

\* C7: for every day and domain, over any sequence of completed checkLimits
\* invocations, the 80% notification is created at most once and the 100%
\* notification is created at most once.
C7_NotifiedAtMostOnce == \A k \in DOMAIN notified : notified[k] <= 1

\* C7 case: both notifications exist, and a later invocation that saw a total
\* past the limit created neither again
C7_Witness ==
    /\ last.checked = Limited
    /\ ~last.fired80 /\ ~last.fired100
    /\ UsedToday(Limited) >= LimitTime
    /\ CreatedToday(notified, "80", Limited) = 1
    /\ CreatedToday(notified, "100", Limited) = 1

\* C8: checkLimits(D, t) with a limit L for D and total = today's time + t
\* creates the 80% notification iff L.notify80, total >= 0.8 * L.timeLimit,
\* total < L.timeLimit and sent80 is false today; when it creates it, sent80
\* is true afterwards in today's record of D.
C8_Fires80 ==
    \A D \in Domains, t \in CheckTimes :
        HasLimit(storage, D) =>
            LET L == storage.limits[D]
                total == UsedToday(D) + t
                after == checkLimits(World, D, t, now)
            IN  IF /\ L.notify80
                   /\ 5 * total >= 4 * L.timeLimit
                   /\ total < L.timeLimit
                   /\ ~SentToday(storage, D, "sent80")
                THEN /\ CreatedToday(after.notified, "80", D)
                            = CreatedToday(notified, "80", D) + 1
                     /\ SentToday(after.st, D, "sent80")
                ELSE CreatedToday(after.notified, "80", D)
                            = CreatedToday(notified, "80", D)

\* C8 case: an invocation created the 80% notification and left sent80 set
C8_Witness ==
    /\ last.checked = Limited
    /\ last.fired80
    /\ SentToday(storage, Limited, "sent80")
    /\ CreatedToday(notified, "80", Limited) = 1

\* C9: checkLimits(D, t) with a limit L for D and total = today's time + t
\* creates the 100% notification iff L.notify100, total >= L.timeLimit and
\* sent100 is false today; when it creates it, sent100 is true afterwards in
\* today's record of D.
C9_Fires100 ==
    \A D \in Domains, t \in CheckTimes :
        HasLimit(storage, D) =>
            LET L == storage.limits[D]
                total == UsedToday(D) + t
                after == checkLimits(World, D, t, now)
            IN  IF /\ L.notify100
                   /\ total >= L.timeLimit
                   /\ ~SentToday(storage, D, "sent100")
                THEN /\ CreatedToday(after.notified, "100", D)
                            = CreatedToday(notified, "100", D) + 1
                     /\ SentToday(after.st, D, "sent100")
                ELSE CreatedToday(after.notified, "100", D)
                            = CreatedToday(notified, "100", D)

\* C9 case: an invocation created the 100% notification and left sent100 set
C9_Witness ==
    /\ last.checked = Limited
    /\ last.fired100
    /\ SentToday(storage, Limited, "sent100")
    /\ CreatedToday(notified, "100", Limited) = 1

\* C10: checkLimits(D, t) redirects the active tab to the block page for
\* (D, timeLimit) iff D's limit has blockOnLimit, total >= timeLimit, and the
\* active tab exists with a URL on domain D; otherwise no tab is redirected.
C10_BlocksActiveTab ==
    \A D \in Domains, t \in CheckTimes :
        LET after == checkLimits(World, D, t, now)
        IN  IF /\ HasLimit(storage, D)
               /\ storage.limits[D].blockOnLimit
               /\ UsedToday(D) + t >= storage.limits[D].timeLimit
               /\ activeTab # NoTab
               /\ activeTab.url # NoUrl
               /\ getDomain(activeTab.url) = D
            THEN after.tab = [activeTab EXCEPT
                                !.url = blockedUrl(D, storage.limits[D].timeLimit)]
            ELSE after.tab = activeTab

\* C10 case: an invocation has redirected the active tab to the block page
C10_Witness ==
    /\ last.checked = Limited
    /\ last.redirected
    /\ activeTab.url = blockedUrl(Limited, LimitTime)

(***************************************************************************)
(* withLock: the chain of promises that serialises the mutators.  Each     *)
(* call appends a caller; _mutex holds the lock promise of the last one    *)
(* (0: the resolved promise _mutex starts as).  A caller is                *)
(*   "waiting"    at `await prev`,                                         *)
(*   "reading"    in its function, at its getStorageData,                  *)
(*   "writing"    in its function, at its setStorageData,                  *)
(*   "releasing"  its function has returned, `finally` has not run yet,    *)
(*   "done"       release() has resolved its lock promise.                 *)
(***************************************************************************)
LockDomains == {"a.com", "b.com"}

LockDurations == {1000, 2000}

LockInitStorage ==
    [InitStorage EXCEPT
        !.whitelist = <<"b.com">>,
        !.daily = getTodayKey(StartOfClock) :>
                    ("a.com" :> [time |-> 5000, favicon |-> getFavicon(UrlA),
                                 lastVisited |-> StartOfClock - 1, visitCount |-> 2,
                                 notifications |-> NoNotifications])]

InitLock ==
    /\ now = StartOfClock
    /\ tzOffset = 0
    /\ storage \in {LockInitStorage, [LockInitStorage EXCEPT !.whitelist = << >>]}
    /\ lastVisit = NoLastVisit
    /\ activeTab = Tab(UrlInternal)
    /\ notified = << >>
    /\ last = NoLast
    /\ session = [start |-> NoTime, written |-> 0]
    /\ visitBase = NoVisitBase
    /\ advances = 0
    /\ events = 0
    /\ LockIdle
    /\ PagesIdle

\* mutant: the lock counts as released as soon as its holder has read
prevReleasedEarly(cs, i) ==
    IF cs[i].prev = 0 THEN TRUE
    ELSE cs[cs[i].prev].pc \in {"writing", "releasing", "done"}

\* mutant: withLock does not await the previous lock
prevReleasedAlways(cs, i) == TRUE

\* `await prev` returns: the promise _mutex held at the call is resolved
prevReleased(cs, i) ==
    IF cs[i].prev = 0 THEN TRUE ELSE cs[cs[i].prev].pc = "done"

\* the write the caller's function makes from the data it read
CallerWrite(c, st, t) ==
    IF c.op = "saveTime"
    THEN saveTimeFn(st, c.domain, c.duration, c.favicon, t)
    ELSE incrementVisitCountFn(st, c.domain, c.favicon, t)

\* mutant: the call chains to _mutex and leaves _mutex as it is
LockCallKeepsMutex(op, domain, duration) ==
    /\ Len(callers) < NumCallers
    /\ callers' = Append(callers,
                         [op |-> op, domain |-> domain, duration |-> duration,
                          favicon |-> NoFavicon, pc |-> "waiting", prev |-> mutex,
                          pending |-> NoWrite, failed |-> FALSE])
    /\ mutex' = mutex
    /\ UNCHANGED <<storage, lastVisit, activeTab, notified, now, tzOffset, last,
                   session, visitBase, advances, events, pages>>

\* withLock(fn) up to `await prev`: the lock promise is made and chained
LockCall(op, domain, duration) ==
    /\ Len(callers) < NumCallers
    /\ callers' = Append(callers,
                         [op |-> op, domain |-> domain, duration |-> duration,
                          favicon |-> NoFavicon, pc |-> "waiting", prev |-> mutex,
                          pending |-> NoWrite, failed |-> FALSE])
    /\ mutex' = Len(callers) + 1
    /\ UNCHANGED <<storage, lastVisit, activeTab, notified, now, tzOffset, last,
                   session, visitBase, advances, events, pages>>

\* fn() starts and runs to its getStorageData
LockEnter(i) ==
    /\ callers[i].pc = "waiting"
    /\ prevReleased(callers, i)
    /\ callers' = [callers EXCEPT ![i].pc = "reading"]
    /\ UNCHANGED <<storage, lastVisit, activeTab, notified, now, tzOffset, last,
                   session, visitBase, advances, events, mutex, pages>>

\* the data arrives; fn runs to its setStorageData, or returns without one
LockRead(i) ==
    /\ callers[i].pc = "reading"
    /\ LET wr == CallerWrite(callers[i], storage, now)
       IN  callers' = [callers EXCEPT
                          ![i].pending = wr,
                          ![i].pc = IF wr.write THEN "writing" ELSE "releasing"]
    /\ UNCHANGED <<storage, lastVisit, activeTab, notified, now, tzOffset, last,
                   session, visitBase, advances, events, mutex, pages>>

\* the store takes the write; fn returns
LockWrite(i) ==
    /\ callers[i].pc = "writing"
    /\ storage' = ApplyWrite(storage, callers[i].pending)
    /\ callers' = [callers EXCEPT ![i].pc = "releasing"]
    /\ UNCHANGED <<lastVisit, activeTab, notified, now, tzOffset, last,
                   session, visitBase, advances, events, mutex, pages>>

\* mutant: release() runs after a function that returned, not in `finally`
LockReleaseOnReturn(i) ==
    /\ callers[i].pc = "releasing"
    /\ ~callers[i].failed
    /\ callers' = [callers EXCEPT ![i].pc = "done"]
    /\ UNCHANGED <<storage, lastVisit, activeTab, notified, now, tzOffset, last,
                   session, visitBase, advances, events, mutex, pages>>

\* finally { release() }
LockRelease(i) ==
    /\ callers[i].pc = "releasing"
    /\ callers' = [callers EXCEPT ![i].pc = "done"]
    /\ UNCHANGED <<storage, lastVisit, activeTab, notified, now, tzOffset, last,
                   session, visitBase, advances, events, mutex, pages>>

NextLock ==
    \/ \E domain \in LockDomains, duration \in LockDurations :
            LockCall("saveTime", domain, duration)
    \/ \E domain \in LockDomains : LockCall("incrementVisitCount", domain, 0)
    \/ \E i \in 1..Len(callers) : LockEnter(i)
    \/ \E i \in 1..Len(callers) : LockRead(i)
    \/ \E i \in 1..Len(callers) : LockWrite(i)
    \/ \E i \in 1..Len(callers) : LockRelease(i)

SpecLock == InitLock /\ [][NextLock]_vars

(***************************************************************************)
(* Properties of the serialisation.                                        *)
(***************************************************************************)
CallsOf(op, domain) ==
    {i \in 1..Len(callers) : callers[i].op = op /\ callers[i].domain = domain}

AllDone ==
    /\ Len(callers) = NumCallers
    /\ \A i \in 1..Len(callers) : callers[i].pc = "done"

InFunction(i) == callers[i].pc \in {"reading", "writing", "releasing"}

\* C3: once all the saveTime and incrementVisitCount calls on a non-whitelisted
\* domain have completed, today's time is the initial time plus the sum of the
\* durations and the visit count the initial count plus the number of
\* incrementVisitCount calls.
C3_NoLostUpdates ==
    \A D \in LockDomains :
        LET today == getTodayKey(now)
            saves == CallsOf("saveTime", D)
        IN  (AllDone /\ ~Whitelisted(storage, D)) =>
                /\ TimeOn(storage, today, D) =
                        TimeOn(LockInitStorage, today, D)
                        + SumOf([i \in saves |-> callers[i].duration], saves)
                /\ VisitsOn(storage, today, D) =
                        VisitsOn(LockInitStorage, today, D)
                        + Cardinality(CallsOf("incrementVisitCount", D))

\* all calls have completed, among them two saveTime calls and an
\* incrementVisitCount call on a.com
C3_Witness ==
    /\ AllDone
    /\ ~Whitelisted(storage, "a.com")
    /\ Cardinality(CallsOf("saveTime", "a.com")) >= 2
    /\ Cardinality(CallsOf("incrementVisitCount", "a.com")) >= 1

\* C4: at most one function passed to withLock is between its start and its
\* completion, and a caller's function has not started while the function of
\* a caller before it has not finished.
C4_MutualExclusion ==
    /\ Cardinality({i \in 1..Len(callers) : InFunction(i)}) <= 1
    /\ \A i, j \in 1..Len(callers) :
            (i < j /\ callers[j].pc # "waiting") => callers[i].pc = "done"

\* one caller is in its function at its write while two others wait
C4_Witness ==
    \E i \in 1..Len(callers) :
        /\ callers[i].pc = "writing"
        /\ Cardinality({j \in 1..Len(callers) : callers[j].pc = "waiting"}) >= 2

(***************************************************************************)
(* The reports: getAggregatedData, getSiteAnalysisData and getTrendMetrics *)
(* read every key of the storage and compute from the per-day records.     *)
(* new Date(key) of a day key is the UTC midnight of that calendar day.    *)
(***************************************************************************)
Indices(seq) == 1..Len(seq)

ReportRanges == {"today", "week", "month", "year", "all-time"}

Abs(x) == IF x < 0 THEN 0 - x ELSE x

\* new Date(key).getTime()
keyTime(day) == day * MsPerDay

\* Math.ceil(Math.abs(today.getTime() - date.getTime()) / (1000*60*60*24)),
\* with t taken apart into whole days and the rest so that the difference of
\* the two instants stays within the integers of the checker: for t at or
\* after the key's midnight the quotient is the whole days between, and one
\* more when t is past its own midnight; for t before it, the rest only
\* shortens the last day.
diffDays(t, day) ==
    LET tDay == t \div MsPerDay
        tRest == t % MsPerDay
    IN  IF tDay >= day
        THEN Abs(tDay - day) + (IF tRest > 0 THEN 1 ELSE 0)
        ELSE Abs(tDay - day)

\* mutant: the month is the six days around the instant
includesShortMonth(range, day, t) ==
    CASE range = "today" -> day = getTodayKey(t)
      [] range = "week" -> diffDays(t, day) <= 7
      [] range = "month" -> diffDays(t, day) <= 6
      [] range = "year" -> diffDays(t, day) <= 365
      [] range = "all-time" -> TRUE

\* the switch on the range
includes(range, day, t) ==
    CASE range = "today" -> day = getTodayKey(t)
      [] range = "week" -> diffDays(t, day) <= 7
      [] range = "month" -> diffDays(t, day) <= 30
      [] range = "year" -> diffDays(t, day) <= 365
      [] range = "all-time" -> TRUE

includedDays(st, range, t) == {day \in DOMAIN st.daily : includes(range, day, t)}

\* mutant: the day's time replaces the time accumulated so far
addTimeOverwrite(sum, time) == time

\* result[domain].time += dayData[domain].time
addTime(sum, time) == sum + time

\* result after one day's record of the domain is merged into it
addRecord(result, domain, rec) ==
    LET cur == IF domain \in DOMAIN result THEN result[domain]
               ELSE [time |-> 0, favicon |-> rec.favicon,
                     lastVisited |-> rec.lastVisited, visitCount |-> 0]
        summed == [cur EXCEPT !.time = addTime(@, rec.time),
                              !.visitCount = @ + rec.visitCount]
        merged == IF rec.lastVisited > cur.lastVisited
                  THEN [summed EXCEPT !.lastVisited = rec.lastVisited,
                                      !.favicon = rec.favicon]
                  ELSE summed
    IN  (domain :> merged) @@ result

\* Object.keys(dayData).forEach
RECURSIVE addDay(_, _, _)
addDay(result, dayData, domains) ==
    IF domains = {} THEN result
    ELSE LET domain == CHOOSE d \in domains : TRUE
         IN  addDay(addRecord(result, domain, dayData[domain]), dayData,
                    domains \ {domain})

\* Object.keys(data).forEach over the day keys
RECURSIVE addDays(_, _, _, _, _)
addDays(result, st, days, range, t) ==
    IF days = {} THEN result
    ELSE LET day == CHOOSE d \in days : \A e \in days : d <= e
             merged == IF includes(range, day, t)
                       THEN addDay(result, st.daily[day], DOMAIN st.daily[day])
                       ELSE result
         IN  addDays(merged, st, days \ {day}, range, t)

\* mutant: the sort is by a.time - b.time
RECURSIVE sortByTimeAscending(_, _)
sortByTimeAscending(result, domains) ==
    IF domains = {} THEN << >>
    ELSE LET top == CHOOSE d \in domains :
                        \A e \in domains : result[d].time <= result[e].time
         IN  <<[domain |-> top, time |-> result[top].time,
                visitCount |-> result[top].visitCount,
                lastVisited |-> result[top].lastVisited,
                favicon |-> result[top].favicon]>>
             \o sortByTimeAscending(result, domains \ {top})

\* .map(...).sort((a, b) => b.time - a.time); entries of equal time in some order
RECURSIVE sortByTime(_, _)
sortByTime(result, domains) ==
    IF domains = {} THEN << >>
    ELSE LET top == CHOOSE d \in domains :
                        \A e \in domains : result[e].time <= result[d].time
         IN  <<[domain |-> top, time |-> result[top].time,
                visitCount |-> result[top].visitCount,
                lastVisited |-> result[top].lastVisited,
                favicon |-> result[top].favicon]>>
             \o sortByTime(result, domains \ {top})

\* byDomain.reduce((acc, curr) => acc + curr.time, 0)
RECURSIVE reduceTime(_)
reduceTime(byDomain) ==
    IF byDomain = << >> THEN 0
    ELSE Head(byDomain).time + reduceTime(Tail(byDomain))

getAggregatedData(st, range, t) ==
    LET result == addDays(<< >>, st, DOMAIN st.daily, range, t)
        byDomain == sortByTime(result, DOMAIN result)
    IN  [totalTime |-> reduceTime(byDomain), byDomain |-> byDomain]

\* mutant: the day's total is the time of one of its sites
dayTotalOfOne(dayData) ==
    IF DOMAIN dayData = {} THEN 0
    ELSE dayData[CHOOSE d \in DOMAIN dayData : TRUE].time

\* Object.values(dayData).forEach((site) => { dayTotal += site.time })
dayTotalOf(dayData) ==
    SumOf([d \in DOMAIN dayData |-> dayData[d].time], DOMAIN dayData)

\* mutant: a day counts as active whatever its total
isActiveAlways(dayTotal) == TRUE

\* if (dayTotal > 0): only active days are counted
isActive(dayTotal) == dayTotal > 0

\* { date: "", time: 0 }, and the null returned for it
NoActiveDay == [found |-> FALSE, date |-> 0, time |-> 0]

\* the totals after the included day
addInsight(acc, day, dayTotal) ==
    IF ~isActive(dayTotal) THEN acc
    ELSE [totalTime |-> acc.totalTime + dayTotal,
          daysCount |-> acc.daysCount + 1,
          mostActiveDay |-> IF dayTotal > acc.mostActiveDay.time
                            THEN [found |-> TRUE, date |-> day, time |-> dayTotal]
                            ELSE acc.mostActiveDay]

\* Object.keys(data).forEach over the day keys
RECURSIVE addInsights(_, _, _, _, _)
addInsights(acc, st, days, range, t) ==
    IF days = {} THEN acc
    ELSE LET day == CHOOSE d \in days : \A e \in days : d <= e
             added == IF includes(range, day, t)
                      THEN addInsight(acc, day, dayTotalOf(st.daily[day]))
                      ELSE acc
         IN  addInsights(added, st, days \ {day}, range, t)

getInsights(st, range, t) ==
    LET acc == addInsights([totalTime |-> 0, daysCount |-> 0,
                            mostActiveDay |-> NoActiveDay],
                           st, DOMAIN st.daily, range, t)
    IN  [mostActiveDay |-> IF acc.mostActiveDay.time > 0 THEN acc.mostActiveDay
                           ELSE NoActiveDay,
         dailyAverage |-> IF acc.daysCount > 0
                          THEN [num |-> acc.totalTime, den |-> acc.daysCount]
                          ELSE [num |-> 0, den |-> 1]]

\* the heat map covers the last 26 weeks
HeatMapDays == 182

Max(a, b) == IF a >= b THEN a ELSE b

Min(a, b) == IF a <= b THEN a ELSE b

\* the date keys that hold a record of the domain, ascending
RECURSIVE sortKeys(_)
sortKeys(days) ==
    IF days = {} THEN << >>
    ELSE LET first == CHOOSE d \in days : \A e \in days : d <= e
         IN  <<first>> \o sortKeys(days \ {first})

\* dailyData: one entry per date key with a record of the domain
dailyDataOf(st, domain) ==
    LET keys == sortKeys({day \in DOMAIN st.daily : domain \in DOMAIN st.daily[day]})
    IN  [i \in Indices(keys) |->
            [date |-> keys[i], time |-> st.daily[keys[i]][domain].time,
             visits |-> st.daily[keys[i]][domain].visitCount]]

\* Math.max(...dailyData.map((d) => d.time), 1)
RECURSIVE maxTime(_)
maxTime(dailyData) ==
    IF dailyData = << >> THEN 1
    ELSE Max(Head(dailyData).time, maxTime(Tail(dailyData)))

\* mutant: the quotient rounded down
intensityFloor(time, maxTimeForIntensity) ==
    IF time > 0 THEN Min(4, (4 * time) \div maxTimeForIntensity) ELSE 0

\* time > 0 ? Math.min(4, Math.ceil((time / maxTimeForIntensity) * 4)) : 0
intensityOf(time, maxTimeForIntensity) ==
    IF time > 0
    THEN Min(4, (4 * time + maxTimeForIntensity - 1) \div maxTimeForIntensity)
    ELSE 0

\* dailyData.find((d) => d.date === dateStr)?.time || 0
timeOnDate(dailyData, day) ==
    IF \E i \in Indices(dailyData) : dailyData[i].date = day
    THEN dailyData[CHOOSE i \in Indices(dailyData) : dailyData[i].date = day].time
    ELSE 0

\* mutant: the loop runs from 182 days back to yesterday
heatMapOfYesterday(dailyData, t) ==
    LET maxTimeForIntensity == maxTime(dailyData)
    IN  [n \in 1..HeatMapDays |->
            LET day == getTodayKey(t) - (HeatMapDays - n) - 1
                time == timeOnDate(dailyData, day)
            IN  [date |-> day, time |-> time,
                 intensity |-> intensityOf(time, maxTimeForIntensity)]]

\* for (let i = 181; i >= 0; i--): the entries from the oldest day to today
heatMapOf(dailyData, t) ==
    LET maxTimeForIntensity == maxTime(dailyData)
    IN  [n \in 1..HeatMapDays |->
            LET day == getTodayKey(t) - (HeatMapDays - n)
                time == timeOnDate(dailyData, day)
            IN  [date |-> day, time |-> time,
                 intensity |-> intensityOf(time, maxTimeForIntensity)]]

\* the record of the latest lastVisited among the domain's, in key order
RECURSIVE lastUsedOf(_, _, _, _)
lastUsedOf(st, domain, dailyData, acc) ==
    IF dailyData = << >> THEN acc
    ELSE LET rec == st.daily[Head(dailyData).date][domain]
             next == IF rec.lastVisited > acc.lastUsed
                     THEN [lastUsed |-> rec.lastVisited, favicon |-> rec.favicon]
                     ELSE acc
         IN  lastUsedOf(st, domain, Tail(dailyData), next)

RECURSIVE sumField(_, _)
sumField(dailyData, field) ==
    IF dailyData = << >> THEN 0
    ELSE Head(dailyData)[field] + sumField(Tail(dailyData), field)

\* if (!firstUsed) return null
NoAnalysis == [found |-> FALSE]

getSiteAnalysisData(st, domain, t) ==
    LET dailyData == dailyDataOf(st, domain)
        used == lastUsedOf(st, domain, dailyData,
                           [lastUsed |-> 0, favicon |-> NoFavicon])
    IN  IF dailyData = << >> THEN NoAnalysis
        ELSE [found |-> TRUE,
              domain |-> domain,
              favicon |-> used.favicon,
              totalTime |-> sumField(dailyData, "time"),
              totalVisits |-> sumField(dailyData, "visits"),
              totalActiveDays |-> Len(dailyData),
              firstUsed |-> dailyData[1].date,
              lastUsed |-> used.lastUsed,
              dailyData |-> dailyData,
              heatMapData |-> heatMapOf(dailyData, t)]

\* a quotient of two numbers, kept as the pair the division is made of
ratio(num, den) == [num |-> num, den |-> den]

zero == ratio(0, 1)

\* mutant: the division is made whatever the previous total
hasPreviousAlways(prevTotal) == TRUE

\* prevTotalTime > 0, prevTotalVisits > 0
hasPrevious(prevTotal) == prevTotal > 0

\* prev > 0 ? ((total - prev) / prev) * 100 : 0
percentChange(total, prevTotal) ==
    IF hasPrevious(prevTotal)
    THEN ratio((total - prevTotal) * 100, prevTotal)
    ELSE zero

\* dailyTimes.length > 0 ? total / dailyTimes.length : 0
average(total, count) == IF count > 0 THEN ratio(total, count) ELSE zero

\* A Date, as the whole days since the epoch and the rest of the day.
Instant(day, rest) == [day |-> day + (rest \div MsPerDay), rest |-> rest % MsPerDay]

\* new Date(key): the UTC midnight of the day of the key
keyDate(day) == Instant(day, 0)

Before(i, j) == i.day < j.day \/ (i.day = j.day /\ i.rest < j.rest)

\* The zone whose offset is DstOffset set its clocks back by an hour at
\* ClockChange (02:00 local summer time); the other zones have no change of
\* clock.  The instants of the model's clock are all after the change.
HourMs == MsPerDay \div 24

DstOffset == 0 - (8 * HourMs)

ClockChange == Instant(0, 9 * HourMs)

\* local time minus UTC at the instant
offsetAt(i) ==
    IF tzOffset = DstOffset /\ Before(i, ClockChange) THEN tzOffset + HourMs
    ELSE tzOffset

\* d.setDate(d.getDate() + delta): the local calendar day is moved and the
\* local time of day kept
setDate(i, delta) ==
    LET local == Instant(i.day, i.rest + offsetAt(i))
        summer == Instant(local.day + delta, local.rest - (tzOffset + HourMs))
        winter == Instant(local.day + delta, local.rest - tzOffset)
    IN  IF tzOffset = DstOffset /\ Before(summer, ClockChange) THEN summer
        ELSE winter

\* the period before the one of daysDiff days that starts at start:
\* prevEnd is start with setDate(getDate() - 1), prevStart is prevEnd with
\* setDate(getDate() - daysDiff + 1)
previousPeriod(start, daysDiff) ==
    LET prevEnd == setDate(start, 0 - 1)
    IN  [prevStart |-> setDate(prevEnd, 1 - daysDiff), prevEnd |-> prevEnd]

\* the entries of dailyData with start <= keyDate <= end
RECURSIVE within(_, _, _)
within(dailyData, start, end) ==
    IF dailyData = << >> THEN << >>
    ELSE LET rest == within(Tail(dailyData), start, end)
             key == keyDate(Head(dailyData).date)
         IN  IF ~Before(key, start) /\ ~Before(end, key)
             THEN <<Head(dailyData)>> \o rest
             ELSE rest

RECURSIVE maxField(_, _)
maxField(dailyData, field) ==
    IF dailyData = << >> THEN 0
    ELSE Max(Head(dailyData)[field], maxField(Tail(dailyData), field))

\* startDate and endDate are day keys; the Dates made of them are UTC
\* midnights, so that Math.ceil((end - start) / day) is their distance in days
getTrendMetrics(st, domain, startDay, endDay) ==
    LET start == keyDate(startDay)
        end == keyDate(endDay)
        daysDiff == (endDay - startDay) + 1
        prevEnd == previousPeriod(start, daysDiff).prevEnd
        prevStart == previousPeriod(start, daysDiff).prevStart
        dailyData == dailyDataOf(st, domain)
        current == within(dailyData, start, end)
        previous == within(dailyData, prevStart, prevEnd)
        totalTime == sumField(current, "time")
        totalVisits == sumField(current, "visits")
    IN  [activeDays |-> Len(current),
         totalDays |-> daysDiff,
         maxDailyTime |-> maxField(current, "time"),
         avgDailyTime |-> average(totalTime, Len(current)),
         maxDailyVisits |-> maxField(current, "visits"),
         avgDailyVisits |-> average(totalVisits, Len(current)),
         totalTime |-> totalTime,
         totalVisits |-> totalVisits,
         timeChange |-> percentChange(totalTime, sumField(previous, "time")),
         visitsChange |-> percentChange(totalVisits, sumField(previous, "visits"))]

\* the periods asked for, as days back from today of the start and the end:
\* the page's own 15 days, and ranges the user picks
TrendPeriods == {<<14, 0>>, <<7, 0>>, <<6, 0>>, <<0, 0>>, <<29, 0>>, <<0, 7>>}

(***************************************************************************)
(* The reports queried over a stored history: records on some of the days  *)
(* before today, at the ends of the week and month ranges, the clock at a  *)
(* midnight (UTC) and going on from there, in three time zones.            *)
(***************************************************************************)
ReportDay == 8

\* the stored histories: the sets of days, counted back from the first day
\* of the model, that hold records
HistorySets ==
    {{}, {7}, {31}, {6, 7, 8}, {0, 7, 30, 31}, {0, 6, 8, 30}, {6, 7, 8, 30, 31}}

TimeZones == {0 - 18000000, 0, 19800000}

DayTicks == {1, 43200000}

\* the records of the day so many days before the day the model starts on
HistoryDay(offset, today) ==
    LET at == keyTime(today - offset) + 36000000
        a == [time |-> 1000 * (offset + 1), favicon |-> NoFavicon,
              lastVisited |-> at, visitCount |-> 1,
              notifications |-> NoNotifications]
        b == [time |-> 60000, favicon |-> NoFavicon, lastVisited |-> at + 1,
              visitCount |-> 0, notifications |-> NoNotifications]
    IN  IF offset % 2 = 0 THEN ("a.com" :> a) @@ ("b.com" :> b)
        ELSE ("a.com" :> a)

History(offsets, today) ==
    [InitStorage EXCEPT !.daily =
        [day \in {today - o : o \in offsets} |-> HistoryDay(today - day, today)]]

InitReports ==
    /\ now = keyTime(ReportDay)
    /\ tzOffset \in TimeZones
    /\ \E offsets \in HistorySets : storage = History(offsets, getTodayKey(now))
    /\ lastVisit = NoLastVisit
    /\ activeTab = Tab(UrlInternal)
    /\ notified = << >>
    /\ last = NoLast
    /\ session = [start |-> NoTime, written |-> 0]
    /\ visitBase = NoVisitBase
    /\ advances = 0
    /\ events = 0
    /\ LockIdle
    /\ PagesIdle

\* the state a step of the reports' model leaves
ReportStep(st, t, rep) ==
    /\ storage' = st
    /\ now' = t
    /\ report' = rep
    /\ UNCHANGED <<lastVisit, activeTab, notified, tzOffset, last, session,
                   visitBase, mutex, callers, dashboard, handlers>>

\* time passes
ReportTick(delta) ==
    /\ advances < MaxAdvances
    /\ advances' = advances + 1
    /\ ReportStep(storage, now + delta, NoReport)
    /\ UNCHANGED events

\* the worker commits time to today's record meanwhile
ReportSaveTime(domain) ==
    /\ events < MaxCommits
    /\ events' = events + 1
    /\ ReportStep(saveTime(World, domain, MaxEventMs, NoFavicon, now).st, now,
                  NoReport)
    /\ UNCHANGED advances

\* the worker counts a visit on today's record meanwhile
ReportVisit(domain) ==
    /\ events < MaxCommits
    /\ events' = events + 1
    /\ ReportStep(incrementVisitCount(World, domain, NoFavicon, now).st, now,
                  NoReport)
    /\ UNCHANGED advances

\* the site analysis page of the domain is opened
QuerySiteAnalysisData(domain) ==
    /\ ReportStep(storage, now,
                  [fn |-> "getSiteAnalysisData", domain |-> domain,
                   result |-> getSiteAnalysisData(storage, domain, now)])
    /\ UNCHANGED <<advances, events>>

\* the site analysis page asks for the trend over a period
QueryTrendMetrics(domain, period) ==
    /\ LET startDay == getTodayKey(now) - period[1]
           endDay == getTodayKey(now) - period[2]
       IN  ReportStep(storage, now,
                  [fn |-> "getTrendMetrics", domain |-> domain,
                   startDay |-> startDay, endDay |-> endDay,
                   result |-> getTrendMetrics(storage, domain, startDay, endDay)])
    /\ UNCHANGED <<advances, events>>

\* the dashboard or the popup asks for a range
QueryAggregatedData(range) ==
    /\ ReportStep(storage, now,
                  [fn |-> "getAggregatedData", range |-> range,
                   result |-> getAggregatedData(storage, range, now)])
    /\ UNCHANGED <<advances, events>>

\* the dashboard asks for the insights of a range
QueryInsights(range) ==
    /\ ReportStep(storage, now,
                  [fn |-> "getInsights", range |-> range,
                   result |-> getInsights(storage, range, now)])
    /\ UNCHANGED <<advances, events>>

NextReports ==
    \/ \E range \in ReportRanges : QueryInsights(range)
    \/ \E delta \in DayTicks : ReportTick(delta)
    \/ \E domain \in Domains : ReportSaveTime(domain)
    \/ \E domain \in Domains : ReportVisit(domain)
    \/ \E range \in ReportRanges : QueryAggregatedData(range)
    \/ \E domain \in Domains : QuerySiteAnalysisData(domain)
    \/ \E domain \in Domains, period \in TrendPeriods :
            QueryTrendMetrics(domain, period)

SpecReports == InitReports /\ [][NextReports]_vars

(***************************************************************************)
(* Properties of the reports.                                              *)
(***************************************************************************)
\* C11: for every range and stored data set, getAggregatedData(range).totalTime
\* is the sum of byDomain[i].time over the returned entries, and each
\* byDomain[i].time is the sum of that domain's time over exactly the day keys
\* the range filter includes; every domain with a record on an included day
\* has an entry.
C11_AggregationSums ==
    report.fn = "getAggregatedData" =>
        LET res == report.result
            days == includedDays(storage, report.range, now)
        IN  /\ res.totalTime =
                    SumOf([i \in Indices(res.byDomain) |-> res.byDomain[i].time],
                          Indices(res.byDomain))
            /\ \A i \in Indices(res.byDomain) :
                    res.byDomain[i].time =
                        SumOf([day \in days |->
                                    TimeOn(storage, day, res.byDomain[i].domain)],
                              days)
            /\ {res.byDomain[i].domain : i \in Indices(res.byDomain)} =
                    {d \in Domains : \E day \in days : d \in DOMAIN storage.daily[day]}

\* C11 case: a week's report over several included days, one stored day left
\* out, with entries for two domains
C11_Witness ==
    /\ report.fn = "getAggregatedData"
    /\ report.range = "week"
    /\ Len(report.result.byDomain) = 2
    /\ Cardinality(includedDays(storage, "week", now)) >= 3
    /\ includedDays(storage, "week", now) # DOMAIN storage.daily

\* the calendar days between today and the day of the key
dayDistance(day) == Abs(getTodayKey(now) - day)

\* C12: getAggregatedData("today") includes exactly the key of the current
\* day; getAggregatedData("week") includes every stored day key at most 7
\* calendar days from today, at any time of day, and excludes every key
\* further away.
C12_RangeFilter ==
    \A day \in DOMAIN storage.daily :
        /\ includes("today", day, now) <=> dayDistance(day) = 0
        /\ dayDistance(day) <= 7 => includes("week", day, now)
        /\ dayDistance(day) > 7 => ~includes("week", day, now)

\* the domain's greatest time on one day, over all the stored days
maxDailyTime(domain) ==
    LET times == {TimeOn(storage, day, domain) : day \in DOMAIN storage.daily}
    IN  CHOOSE m \in times \cup {0} : \A x \in times : x <= m

\* the (time, intensity) pairs among the heat map's entries
heatPairs(heatMapData) ==
    {<<heatMapData[n].time, heatMapData[n].intensity>> : n \in Indices(heatMapData)}

\* what holds of every heat map whatever the domain's greatest daily time
intensityRanked(pairs) ==
    /\ \A e \in pairs : e[2] \in 0..4
    /\ \A e \in pairs : e[1] = 0 => e[2] = 0
    /\ \A e \in pairs : e[1] > 0 => e[2] >= 1
    /\ \A a \in pairs, b \in pairs : a[1] <= b[1] => a[2] <= b[2]

\* C13 as stated: every heat-map entry's intensity is an integer in 0..4, is 0
\* when its time is 0, is 4 when its time equals the domain's maximum daily
\* time over its whole history, is at least 1 when its time is positive, and
\* intensity is monotonic in time within one result.
C13_Intensity ==
    (report.fn = "getSiteAnalysisData" /\ report.result.found) =>
        LET pairs == heatPairs(report.result.heatMapData)
        IN  /\ intensityRanked(pairs)
            /\ \A e \in pairs : e[1] = maxDailyTime(report.domain) => e[2] = 4

\* C13 amended: as C13, the entry at the domain's maximum daily time having
\* intensity 4 when that maximum is positive; when the domain's records all
\* have time 0 every entry has intensity 0.
C13_IntensityAmended ==
    (report.fn = "getSiteAnalysisData" /\ report.result.found) =>
        LET pairs == heatPairs(report.result.heatMapData)
        IN  /\ Len(report.result.heatMapData) = HeatMapDays
            /\ intensityRanked(pairs)
            /\ \A e \in pairs :
                    (e[1] = maxDailyTime(report.domain) /\ e[1] > 0) => e[2] = 4

\* C13 case: a heat map with a day at the maximum, a day of positive time
\* below intensity 4, and days without time
C13_Witness ==
    /\ report.fn = "getSiteAnalysisData"
    /\ report.result.found
    /\ LET pairs == heatPairs(report.result.heatMapData)
       IN  /\ \E e \in pairs : e[1] = maxDailyTime(report.domain) /\ e[2] = 4
           /\ \E e \in pairs : e[1] > 0 /\ e[2] \in 1..3
           /\ \E e \in pairs : e[1] = 0

\* the domain's stored time and visits over the days lo..hi
periodTime(domain, lo, hi) ==
    LET days == {day \in DOMAIN storage.daily : lo <= day /\ day <= hi}
    IN  SumOf([day \in days |-> TimeOn(storage, day, domain)], days)

periodVisits(domain, lo, hi) ==
    LET days == {day \in DOMAIN storage.daily : lo <= day /\ day <= hi}
    IN  SumOf([day \in days |-> VisitsOn(storage, day, domain)], days)

\* the quotient q is 0
isZero(q) == q.den # 0 /\ q.num = 0

\* the quotient q is ((total - prev) / prev) * 100: the division of these
\* two numbers
isPercentChange(q, total, prev) ==
    q.den # 0 /\ q.num = (total - prev) * 100 /\ q.den = prev

\* C14: in getTrendMetrics the returned timeChange is 0 whenever the previous
\* period's total time is 0, visitsChange is 0 whenever the previous period's
\* total visits is 0, otherwise each is (total - prev) / prev * 100; no
\* quotient of the result divides by zero.
C14_TrendChange ==
    report.fn = "getTrendMetrics" =>
        LET r == report.result
            n == report.endDay - report.startDay + 1
            lo == report.startDay - n
            hi == report.startDay - 1
            time == periodTime(report.domain, report.startDay, report.endDay)
            visits == periodVisits(report.domain, report.startDay, report.endDay)
            prevTime == periodTime(report.domain, lo, hi)
            prevVisits == periodVisits(report.domain, lo, hi)
        IN  /\ IF prevTime = 0 THEN isZero(r.timeChange)
               ELSE isPercentChange(r.timeChange, time, prevTime)
            /\ IF prevVisits = 0 THEN isZero(r.visitsChange)
               ELSE isPercentChange(r.visitsChange, visits, prevVisits)
            /\ r.avgDailyTime.den # 0
            /\ r.avgDailyVisits.den # 0

\* C14 case: a previous period with time but no visits, and a current total
\* that differs from it
C14_Witness ==
    /\ report.fn = "getTrendMetrics"
    /\ LET n == report.endDay - report.startDay + 1
           lo == report.startDay - n
           hi == report.startDay - 1
       IN  /\ periodTime(report.domain, lo, hi) > 0
           /\ periodVisits(report.domain, lo, hi) = 0
           /\ report.result.totalTime > 0
           /\ report.result.timeChange.num # 0
           /\ isZero(report.result.visitsChange)

(***************************************************************************)
(* The tracker's functions on their own: commitTime, startTracking,        *)
(* stopTracking and the removal of the start time, each call run to        *)
(* completion, in any order, with the clock going on between them.         *)
(***************************************************************************)
CallTicks == {1000, 15000}

\* the clock starts one second after the midnight the days are counted from
FirstCall == 1000

InitCalls ==
    /\ now = FirstCall
    /\ tzOffset = 0
    /\ \E delay \in {1, DefaultTrackingDelaySeconds} :
            storage = [InitStorage EXCEPT
                            !.limits = "a.com" :> LimitA,
                            !.settings = [trackingDelaySeconds |-> delay,
                                          theme |-> "blue-500"]]
    /\ lastVisit = NoLastVisit
    /\ activeTab = Tab(UrlA)
    /\ notified = << >>
    /\ last = NoLast
    /\ session = [start |-> NoTime, written |-> 0]
    /\ visitBase = NoVisitBase
    /\ advances = 0
    /\ events = 0
    /\ LockIdle
    /\ PagesIdle

\* the world a call leaves; last.skipped tells a commitTime made with no
\* session open
CallStep(w, idle) ==
    /\ events < MaxCalls
    /\ events' = events + 1
    /\ storage' = w.st
    /\ lastVisit' = w.lv
    /\ activeTab' = w.tab
    /\ notified' = w.notified
    /\ last' = [NoLast EXCEPT !.skipped = idle]
    /\ UNCHANGED <<now, tzOffset, session, visitBase, advances, mutex, callers,
                   pages>>

CallTick(delta) ==
    /\ advances < MaxAdvances
    /\ advances' = advances + 1
    /\ now' = now + delta
    /\ UNCHANGED <<storage, lastVisit, activeTab, notified, tzOffset, last,
                   session, visitBase, events, mutex, callers, pages>>

\* await commitTime()
CallCommitTime ==
    /\ events < MaxCalls
    /\ CallStep(commitTime(World, now), noSession(storage))

\* await startTracking(url, true)
CallStartTracking(url) ==
    /\ events < MaxCalls
    /\ CallStep(startTracking([World EXCEPT !.tab = Tab(url)], url, TRUE, now),
                FALSE)

\* await stopTracking()
CallStopTracking ==
    /\ storage.currentUrl # NoUrl
    /\ CallStep(stopTracking(World), FALSE)

\* await chrome.storage.local.remove([STORAGE_KEYS.START_TIME])
CallRemoveStartTime ==
    /\ storage.startTime # NoTime
    /\ CallStep(removeStartTime(World), FALSE)

NextCalls ==
    \/ \E delta \in CallTicks : CallTick(delta)
    \/ CallCommitTime
    \/ \E url \in NavUrls : CallStartTracking(url)
    \/ CallStopTracking
    \/ CallRemoveStartTime

SpecCalls == InitCalls /\ [][NextCalls]_vars

\* C15: commitTime called while no session is open (_currentUrl absent or
\* _startTime absent) changes nothing: no record is written, no notification
\* is created, no tab is redirected and the tracking state stays as it is,
\* however often it is called.
C15_NoSessionNoOp ==
    (storage.currentUrl = NoUrl \/ storage.startTime = NoTime) =>
        /\ commitTime(World, now) = World
        /\ commitTime(commitTime(World, now), now) = World

\* C15 case: commitTime has just been called with the start time removed and
\* the URL kept, long enough after the session began for a commit to count,
\* with time already stored
C15_Witness ==
    /\ last.skipped
    /\ storage.currentUrl # NoUrl
    /\ storage.startTime = NoTime
    /\ TotalTime(storage) > 0
    /\ now >= FirstCall + 15000

(***************************************************************************)
(* The settings page of the dashboard.  What is typed into the tracking    *)
(* delay field is a record [numeric, value]: whether parseInt finds a      *)
(* number at its start, and that number.                                   *)
(***************************************************************************)
NotANumber == [nan |-> TRUE, value |-> 0]

\* parseInt(e.target.value)
parseInt(input) ==
    IF input.numeric THEN [nan |-> FALSE, value |-> input.value] ELSE NotANumber

\* parsed || 1
orOne(parsed) == IF parsed.nan \/ parsed.value = 0 THEN 1 ELSE parsed.value

\* mutant: no upper limit
clampDelayNoMax(input) == Max(1, orOne(parseInt(input)))

\* Math.min(100, Math.max(1, parseInt(e.target.value) || 1))
clampDelay(input) == Min(100, Max(1, orOne(parseInt(input))))

\* { ...current, ...settings }
mergeSettings(current, settings) ==
    [trackingDelaySeconds |-> settings.trackingDelaySeconds,
     theme |-> settings.theme]

DelayInputs ==
    {[numeric |-> FALSE, value |-> 0]}
        \cup {[numeric |-> TRUE, value |-> v] :
                v \in {0 - 5, 0, 1, 2, 15, 50, 99, 100, 101, 1000}}

ThemeIds == {"blue-500", "rose-500", "emerald-500"}

InitSettings ==
    /\ now = StartOfClock
    /\ tzOffset = 0
    /\ storage = InitStorage
    /\ lastVisit = NoLastVisit
    /\ activeTab = Tab(UrlInternal)
    /\ notified = << >>
    /\ last = NoLast
    /\ session = [start |-> NoTime, written |-> 0]
    /\ visitBase = NoVisitBase
    /\ advances = 0
    /\ events = 0
    /\ LockIdle
    /\ PagesIdle

\* the state a step of the settings page leaves
PageStep(st, page) ==
    /\ storage' = st
    /\ dashboard' = page
    /\ UNCHANGED <<lastVisit, activeTab, notified, now, tzOffset, last, session,
                   visitBase, advances, events, mutex, callers, handlers, report>>

\* the page is closed and opened again: its state is the initial one
ReopenDashboard ==
    /\ dashboard # DashboardClosed
    /\ PageStep(storage, DashboardClosed)

\* fetchSettings, when the page is opened
FetchSettings ==
    /\ dashboard # [trackingDelay |-> getSettings(storage).trackingDelaySeconds,
                    themeId |-> getSettings(storage).theme]
    /\ PageStep(storage,
                [trackingDelay |-> getSettings(storage).trackingDelaySeconds,
                 themeId |-> getSettings(storage).theme])

\* onChange of the tracking delay field
ChangeDelay(input) ==
    /\ dashboard.trackingDelay # clampDelay(input)
    /\ PageStep(storage, [dashboard EXCEPT !.trackingDelay = clampDelay(input)])

\* handleSaveSettings
SaveSettings ==
    LET settings == [trackingDelaySeconds |-> dashboard.trackingDelay,
                     theme |-> dashboard.themeId]
    IN  /\ storage.settings # settings
        /\ PageStep(setSettingsFn(storage,
                        mergeSettings(getSettings(storage), settings)),
                    dashboard)

\* handleThemeChange: the theme is saved at once, with the delay of the field
ChangeTheme(themeId) ==
    LET settings == [trackingDelaySeconds |-> dashboard.trackingDelay,
                     theme |-> themeId]
    IN  /\ dashboard.themeId # themeId
        /\ PageStep(setSettingsFn(storage,
                        mergeSettings(getSettings(storage), settings)),
                    [dashboard EXCEPT !.themeId = themeId])

NextSettings ==
    \/ ReopenDashboard
    \/ FetchSettings
    \/ \E input \in DelayInputs : ChangeDelay(input)
    \/ SaveSettings
    \/ \E themeId \in ThemeIds : ChangeTheme(themeId)

SpecSettings == InitSettings /\ [][NextSettings]_vars

\* C16: after any sequence of inputs to the tracking delay field and of
\* setSettings calls, the trackingDelaySeconds that getSettings returns is an
\* integer in 1..100 (an input below 1 or not a number is taken as 1, one
\* above 100 as 100), so commitTime's minDuration is between 1000 and 100000.
C16_DelayClamped ==
    /\ getSettings(storage).trackingDelaySeconds \in 1..100
    /\ dashboard.trackingDelay \in 1..100
    /\ getSettings(storage).trackingDelaySeconds * MsPerSecond \in 1000..100000
    /\ \A input \in DelayInputs :
            clampDelay(input) =
                IF ~input.numeric \/ input.value < 1 THEN 1
                ELSE IF input.value > 100 THEN 100
                ELSE input.value

\* C16 case: a delay typed above the range has been saved as 100
C16_Witness ==
    /\ storage.settings # NoSettings
    /\ storage.settings.trackingDelaySeconds = 100
    /\ dashboard.trackingDelay = 1

(***************************************************************************)
(* The listeners interleaved.  A listener is an async function: between    *)
(* two of its awaits it runs alone, and at an await any other listener may *)
(* run.  handlers holds the listeners in flight, each with the place it    *)
(* has reached (pc) and its locals: data, what commitTime read from the    *)
(* storage, and duration.  saveTime, checkLimits and the part of           *)
(* startTracking before its set are taken as one step each.  raced tells   *)
(* that another listener was between its first and its last step when      *)
(* this one read the storage; at, counted and early are the time of the    *)
(* debounce test, that the listener's visit was counted, and that another  *)
(* listener's visit to the domain was being counted at the test.           *)
(***************************************************************************)
RaceTicks == {5}

\* how long the session has been open when the events arrive
OpenFor == 20000

RaceKinds == {"tabActivated", "tabUpdated", "alarm"}

NoData == [currentUrl |-> NoUrl, startTime |-> NoTime, favicon |-> NoFavicon]

\* a session on a.com, opened by a navigation that counted a visit
InitRace ==
    /\ now = StartOfClock
    /\ tzOffset = 0
    /\ storage = incrementVisitCount(
                    [st |-> [InitStorage EXCEPT !.currentUrl = UrlA,
                                                !.startTime = StartOfClock - OpenFor,
                                                !.favicon = getFavicon(UrlA)],
                     lv |-> NoLastVisit, tab |-> Tab(UrlA), notified |-> << >>],
                    "a.com", getFavicon(UrlA), StartOfClock - OpenFor).st
    /\ lastVisit = [domain |-> "a.com", timestamp |-> StartOfClock - OpenFor]
    /\ activeTab = Tab(UrlA)
    /\ notified = << >>
    /\ last = NoLast
    /\ session = [start |-> StartOfClock - OpenFor, written |-> 0]
    /\ visitBase = NoVisitBase
    /\ advances = 0
    /\ events = 0
    /\ LockIdle
    /\ PagesIdle

\* the state a step of listener i leaves: the world w and the listener h
RaceStep(i, w, h) ==
    /\ storage' = w.st
    /\ lastVisit' = w.lv
    /\ activeTab' = w.tab
    /\ notified' = w.notified
    /\ handlers' = [handlers EXCEPT ![i] = h]
    /\ UNCHANGED <<now, tzOffset, last, session, visitBase, advances, events,
                   mutex, callers, dashboard, report>>

RaceTick(delta) ==
    /\ advances < MaxAdvances
    /\ advances' = advances + 1
    /\ now' = now + delta
    /\ UNCHANGED <<storage, lastVisit, activeTab, notified, tzOffset, last,
                   session, visitBase, events, mutex, callers, pages>>

\* an event is delivered and its listener starts; url is the tab's URL, NoUrl
\* for a tab that is closed by the time chrome.tabs.get is called
Deliver(kind, url) ==
    /\ Len(handlers) < MaxHandlers
    /\ kind = "alarm" => url = NoUrl
    /\ kind = "tabUpdated" => url # NoUrl
    /\ handlers' = Append(handlers,
            [kind |-> kind, url |-> url, pc |-> "commit", data |-> NoData,
             duration |-> 0, saved |-> FALSE, raced |-> FALSE,
             at |-> 0, counted |-> FALSE, early |-> FALSE])
    /\ activeTab' = IF url # NoUrl THEN Tab(url) ELSE activeTab
    /\ UNCHANGED <<storage, lastVisit, notified, now, tzOffset, last, session,
                   visitBase, advances, events, mutex, callers, dashboard,
                   report>>

\* where the listener goes on after its commitTime
afterCommit(h) ==
    CASE h.kind = "tabActivated" -> "get"
      [] h.kind = "tabUpdated" -> "track"
      [] h.kind = "alarm" -> "restart"

\* another listener than i has made a step and has not finished
InFlight(i) ==
    \E j \in DOMAIN handlers : j # i /\ handlers[j].pc \notin {"commit", "done"}

\* commitTime: data = await chrome.storage.local.get(...), the early return,
\* duration = Date.now() - data._startTime
CommitRead(i) ==
    /\ handlers[i].pc = "commit"
    /\ LET h == handlers[i]
           data == [currentUrl |-> storage.currentUrl,
                    startTime |-> storage.startTime,
                    favicon |-> storage.favicon]
       IN  RaceStep(i, World,
                IF noSession(data)
                THEN [h EXCEPT !.pc = afterCommit(h)]
                ELSE [h EXCEPT !.pc = "settings", !.data = data,
                               !.duration = now - data.startTime,
                               !.raced = InFlight(i)])

\* commitTime: settings = await getSettings(), the test of the duration
CommitSettings(i) ==
    /\ handlers[i].pc = "settings"
    /\ LET h == handlers[i]
           minDuration == getSettings(storage).trackingDelaySeconds * MsPerSecond
       IN  RaceStep(i, World,
                IF acceptsDuration(getDomain(h.data.currentUrl), h.duration,
                                   minDuration)
                THEN [h EXCEPT !.pc = "save"]
                ELSE [h EXCEPT !.pc = afterCommit(h)])

\* commitTime: await saveTime(domain, duration, data._favicon)
CommitSave(i) ==
    /\ handlers[i].pc = "save"
    /\ LET h == handlers[i]
           domain == getDomain(h.data.currentUrl)
           w == saveTime(World, domain, h.duration, h.data.favicon, now)
       IN  RaceStep(i, w, [h EXCEPT !.pc = "check", !.saved = (w.st # storage)])

\* commitTime: await checkLimits(domain)
CommitCheck(i) ==
    /\ handlers[i].pc = "check"
    /\ LET h == handlers[i]
       IN  RaceStep(i, checkLimits(World, getDomain(h.data.currentUrl), 0, now),
                    [h EXCEPT !.pc = afterCommit(h)])

\* tabs.onActivated: tab = await chrome.tabs.get(tabId), which throws for a
\* closed tab
GetTab(i) ==
    /\ handlers[i].pc = "get"
    /\ LET h == handlers[i]
       IN  RaceStep(i, World,
                [h EXCEPT !.pc = IF h.url # NoUrl THEN "track" ELSE "done"])

\* another listener than i is waiting for its incrementVisitCount of the
\* domain
VisitPending(i, domain) ==
    \E j \in DOMAIN handlers :
        j # i /\ handlers[j].pc = "visit" /\ getDomain(handlers[j].url) = domain

\* startTracking up to its call of incrementVisitCount: stopTracking or the
\* redirect when there is nothing to track, and the debounce test at
\* now = Date.now()
Track(i) ==
    /\ handlers[i].pc = "track"
    /\ LET h == handlers[i]
           domain == getDomain(h.url)
           made == beforeSet(World, h.url, FALSE, now)
       IN  RaceStep(i, made.w,
                IF ~made.sets THEN [h EXCEPT !.pc = "done"]
                ELSE IF isDuplicate(lastVisit, domain, now)
                THEN [h EXCEPT !.pc = "set"]
                ELSE [h EXCEPT !.pc = "visit", !.at = now,
                               !.early = VisitPending(i, domain)])

\* startTracking: await incrementVisitCount(domain, getFavicon(url)), then
\* _lastVisit = { domain, timestamp: now }
CountVisit(i) ==
    /\ handlers[i].pc = "visit"
    /\ LET h == handlers[i]
           domain == getDomain(h.url)
           w == incrementVisitCount(World, domain, getFavicon(h.url), now)
       IN  RaceStep(i, [w EXCEPT !.lv = [domain |-> domain, timestamp |-> h.at]],
                    [h EXCEPT !.pc = "set", !.counted = (w.st # storage)])

\* startTracking: await chrome.storage.local.set(...)
SetSession(i) ==
    /\ handlers[i].pc = "set"
    /\ RaceStep(i, setSession(World, handlers[i].url, now),
                [handlers[i] EXCEPT !.pc = "done"])

\* alarms.onAlarm after commitTime: data = await chrome.storage.local.get of
\* _currentUrl and _favicon
Restart(i) ==
    /\ handlers[i].pc = "restart"
    /\ LET h == handlers[i]
       IN  RaceStep(i, World,
                [h EXCEPT !.url = storage.currentUrl,
                          !.pc = IF storage.currentUrl # NoUrl THEN "soft"
                                                               ELSE "done"])

\* alarms.onAlarm: the read of _startTime and the soft check of the limits
SoftCheck(i) ==
    /\ handlers[i].pc = "soft"
    /\ RaceStep(i, softCheck(World, handlers[i].url, now),
                [handlers[i] EXCEPT !.pc = "reset"])

\* alarms.onAlarm: await chrome.storage.local.set of _startTime
ResetStartTime(i) ==
    /\ handlers[i].pc = "reset"
    /\ RaceStep(i, resetStartTime(World, now), [handlers[i] EXCEPT !.pc = "done"])

NextRace ==
    \/ \E delta \in RaceTicks : RaceTick(delta)
    \/ \E kind \in RaceKinds, url \in {NoUrl, UrlA, UrlB, UrlInternal} :
            Deliver(kind, url)
    \/ \E i \in DOMAIN handlers : CommitRead(i)
    \/ \E i \in DOMAIN handlers : CommitSettings(i)
    \/ \E i \in DOMAIN handlers : CommitSave(i)
    \/ \E i \in DOMAIN handlers : CommitCheck(i)
    \/ \E i \in DOMAIN handlers : GetTab(i)
    \/ \E i \in DOMAIN handlers : Track(i)
    \/ \E i \in DOMAIN handlers : CountVisit(i)
    \/ \E i \in DOMAIN handlers : SetSession(i)
    \/ \E i \in DOMAIN handlers : Restart(i)
    \/ \E i \in DOMAIN handlers : SoftCheck(i)
    \/ \E i \in DOMAIN handlers : ResetStartTime(i)

SpecRace == InitRace /\ [][NextRace]_vars

\* C17: when two listeners interleave at their awaits, the elapsed time of the
\* session that was open is added to its record at most once: no two
\* listeners both commit an interval of the same session start.
C17_CommittedOnce ==
    \A i \in DOMAIN handlers, j \in DOMAIN handlers :
        (i # j /\ handlers[i].saved /\ handlers[j].saved /\ handlers[j].raced)
            => handlers[i].data.startTime # handlers[j].data.startTime

(***************************************************************************)
(* The tracker after the user has left: window blur, idle, locked, and a   *)
(* navigation to a blocked domain.  Checked with handlers run one at a     *)
(* time.                                                                   *)
(***************************************************************************)
\* the focus-lost and the idle / locked listeners
LeavesTracking ==
    \/ WindowBlurred
    \/ \E newState \in {"idle", "locked"} : IdleStateChanged(newState)

\* the listeners that call startTracking: navigate, activate, focus, active,
\* startup
CallsStartTracking ==
    \/ \E url \in NavUrls \cup {NoUrl}, closed \in BOOLEAN : TabActivated(url, closed)
    \/ \E url \in NavUrls : TabUpdated(url)
    \/ \E url \in NavUrls, frameId \in {0, 1}, tabState \in {"active", "inactive"} :
            HistoryStateUpdated(url, frameId, tabState)
    \/ \E tab \in {Tab(url) : url \in NavUrls \cup {NoUrl}} \cup {NoTab} :
            WindowFocused(tab)
    \/ IdleStateChanged("active")
    \/ \E kind \in {"startup", "installed"} : WorkerStarted(kind)

\* _startTime is absent and a commitTime called now writes nothing
TrackerIdle ==
    /\ storage.startTime = NoTime
    /\ commitTime(World, now) = World

\* C18: the window-blur and the idle / locked handlers commit the open session
\* and leave the tracker idle, with _startTime absent and _currentUrl kept,
\* and the tracker stays idle (a commitTime is a no-op) through every event
\* until a focus / active / navigate event opens a session.
C18_IdleUntilOpened ==
    [][/\ LeavesTracking =>
            /\ TrackerIdle'
            /\ storage'.currentUrl = storage.currentUrl
            /\ TotalTime(storage') = TotalTime(commitTime(World, now).st)
       /\ (TrackerIdle /\ storage.currentUrl # NoUrl /\ ~CallsStartTracking)
            => TrackerIdle']_vars

\* the handler alone: what the window-blur and the idle / locked handlers
\* leave when they return
LeftIdle ==
    [][LeavesTracking =>
            /\ TrackerIdle'
            /\ storage'.currentUrl = storage.currentUrl
            /\ TotalTime(storage') = TotalTime(commitTime(World, now).st)]_vars

\* chrome.alarms.create("time-tracker-save", { periodInMinutes: 1 })
AlarmPeriodMs == 60000

\* the tracker was left by a blur / idle / locked event: _startTime absent,
\* _currentUrl retained
IdleRetained == storage.startTime = NoTime /\ storage.currentUrl # NoUrl

\* the commitTime of the next alarm tick, one period from now, adds no time
NextTickWritesNothing ==
    TotalTime(commitTime(World, now + AlarmPeriodMs).st) = TotalTime(storage)

\* C19: an alarm tick that fires while the tracker is idle after a blur /
\* idle / locked event (_startTime absent, _currentUrl retained) opens no
\* session: _startTime is still absent after the tick, and the following tick
\* adds no time for the interval in which the user was away.
C19_AlarmKeepsIdle ==
    [][(Alarm /\ IdleRetained) =>
            (storage'.startTime = NoTime /\ NextTickWritesNothing')]_vars

\* the handler that has just run called startTracking for a domain whose
\* blocking limit was used up, and startTracking redirected the tab
BlockedNavigation == last.nav # NoDomain /\ last.blocked

\* the step has set no session: _currentUrl, _startTime and _favicon are what
\* they were
SessionKept ==
    /\ storage'.currentUrl = storage.currentUrl
    /\ storage'.startTime = storage.startTime
    /\ storage'.favicon = storage.favicon

\* C20: after a navigate / activate event to a URL whose domain D has a
\* blocking limit that today's committed time has reached, no session is
\* open (a following commitTime writes nothing), no session for D has been
\* started, and D's visit count has not been incremented.
C20_BlockedEndsIdle ==
    [][BlockedNavigation' =>
            /\ noSession(storage')
            /\ \A delta \in Deltas :
                    TotalTime(commitTime(World, now + delta).st)' = TotalTime(storage')
            /\ SessionKept
            /\ VisitsAll(storage', last'.nav) = VisitsAll(storage, last'.nav)]_vars

\* the parts that are about D alone: no session for D is started by the
\* handler and D's visits are not counted
BlockedNotStarted ==
    [][BlockedNavigation' =>
            /\ SessionKept
            /\ VisitsAll(storage', last'.nav) = VisitsAll(storage, last'.nav)]_vars

(***************************************************************************)
(* A long session: a session stays open on one URL and nothing happens     *)
(* but the alarm "time-tracker-save", which fires once per period.  The    *)
(* first tick comes some part of a period after the session was opened.    *)
(* advances counts the ticks that have come due, events those handled.     *)
(***************************************************************************)
\* trackingDelaySeconds as the dashboard lets it be set: within 1..100
TickDelays == {1, 15, 60, 61, 100}

\* from the opening of the session to the first tick
TickPhases == {1000, 15000, 45000, 60000}

TicksStart == MsPerDay + 1000

InitTicks ==
    /\ now = TicksStart
    /\ tzOffset = 0
    /\ \E delay \in TickDelays, url \in {UrlA, UrlB},
          whitelist \in {<< >>, <<"a.com">>} :
            LET st0 == [InitStorage EXCEPT
                            !.whitelist = whitelist,
                            !.settings = [trackingDelaySeconds |-> delay,
                                          theme |-> "blue-500"]]
                w0 == [st |-> st0, lv |-> NoLastVisit, tab |-> Tab(url),
                       notified |-> << >>]
                w == startTracking(w0, url, TRUE, TicksStart)
            IN  /\ storage = w.st
                /\ lastVisit = w.lv
                /\ activeTab = w.tab
                /\ notified = w.notified
    /\ last = NoLast
    /\ session = [start |-> TicksStart, written |-> 0]
    /\ visitBase = NoVisitBase
    /\ advances = 0
    /\ events = 0
    /\ LockIdle
    /\ PagesIdle

\* the period elapses and the next tick is due
TickElapses(phase) ==
    /\ advances < MaxTicks
    /\ advances = events
    /\ now' = now + (IF advances = 0 THEN phase ELSE AlarmPeriodMs)
    /\ advances' = advances + 1
    /\ UNCHANGED <<storage, lastVisit, activeTab, notified, tzOffset, last,
                   session, visitBase, events, mutex, callers, pages>>

\* chrome.alarms.onAlarm for the tick that is due
AlarmFires ==
    /\ events < advances
    /\ Alarm

NextTicks ==
    \/ \E phase \in TickPhases : TickElapses(phase)
    \/ AlarmFires

SpecTicks == InitTicks /\ [][NextTicks]_vars

\* C21: an alarm tick while a session is open on U commits the session and
\* re-opens it: afterwards the session is open on the same URL with the same
\* favicon and _startTime is the tick's time, no visit is counted, and the
\* interval a tick commits starts where the previous tick's ended and is at
\* most one minute long.
C21_TickReopens ==
    [][(AlarmFires /\ OpenSession) =>
            /\ storage'.currentUrl = storage.currentUrl
            /\ storage'.favicon = storage.favicon
            /\ storage'.startTime = now
            /\ lastVisit' = lastVisit
            /\ \A d \in Domains : VisitsAll(storage', d) = VisitsAll(storage, d)
            /\ TotalTime(storage') - TotalTime(storage) \in {0, now - storage.startTime}
            /\ now - storage.startTime <= AlarmPeriodMs
            /\ (events > 0 => now - storage.startTime = AlarmPeriodMs)]_vars

\* C21 case: the second tick has committed the minute since the first
C21_Witness ==
    /\ events = 2
    /\ OpenSession
    /\ storage.startTime = now
    /\ last.wrote = AlarmPeriodMs

\* C22: for every tracking delay in 1..100, a session that stays open on a
\* trackable, non-whitelisted domain with nothing but alarm ticks happening
\* has, after n ticks, at least n - 1 minutes of time for the day.
C22_LongSessionProgress ==
    LET domain == getDomain(storage.currentUrl)
    IN  (domain # NoDomain /\ ~Whitelisted(storage, domain))
            => TimeOn(storage, getTodayKey(now), domain)
                    >= (events - 1) * AlarmPeriodMs

(***************************************************************************)
(* Handlers that store a new _startTime, handlers run one at a time.       *)
(***************************************************************************)
\* the open session's elapsed time is one that commitTime writes: the domain
\* is trackable and not whitelisted, the duration within the accepted window
Committable ==
    /\ OpenSession
    /\ acceptsDuration(getDomain(storage.currentUrl), now - storage.startTime,
                       getSettings(storage).trackingDelaySeconds * MsPerSecond)
    /\ ~Whitelisted(storage, getDomain(storage.currentUrl))

\* the step stores a new _startTime over the one of the open session
OverwritesStartTime ==
    /\ OpenSession
    /\ storage'.startTime # NoTime
    /\ storage'.startTime # storage.startTime

\* C23: every handler that overwrites _startTime of an open session commits
\* that session first: the elapsed time of the session, when it lies within
\* the accepted window, has been added to the records by the time the new
\* start time is stored.
C23_CommitBeforeOverwrite ==
    [][(OverwritesStartTime /\ Committable) =>
            TotalTime(storage') = TotalTime(storage) + (now - storage.startTime)]_vars

\* C24: in every reachable state, under any interleaving of the handlers,
\* _startTime is present only if _currentUrl is present: no handler leaves a
\* _startTime stored without a _currentUrl.
C24_StartTimeHasUrl ==
    storage.startTime # NoTime => storage.currentUrl # NoUrl

(***************************************************************************)
(* checkLimits interleaved.  A listener in flight is at a commitTime that  *)
(* has accepted its duration (saveTime, then checkLimits with nothing to   *)
(* add) or at the alarm's soft check (checkLimits with the time of the     *)
(* open session to add).  checkLimits runs alone from the return of        *)
(* getDailyUsage to its next await: it tests the usage it has read,        *)
(* creates the notification and calls updateNotificationState, whose write *)
(* is a later step.                                                        *)
(***************************************************************************)
\* today's time of the limited domain when the listeners start
UsedTimes == {0, 5000, 7000}

\* the duration a listener commits or adds
CheckDurations == {1000, 3000}

CheckKinds == {"commit", "soft"}

InitCheckRace ==
    /\ now = StartOfClock
    /\ tzOffset = 0
    /\ \E used \in UsedTimes :
            storage = withUsedTime(
                        [InitStorage EXCEPT !.limits = Limited :> LimitA,
                                            !.currentUrl = UrlA,
                                            !.startTime = StartOfClock,
                                            !.favicon = getFavicon(UrlA)],
                        used)
    /\ lastVisit = NoLastVisit
    /\ activeTab = Tab(UrlA)
    /\ notified = << >>
    /\ last = NoLast
    /\ session = [start |-> StartOfClock, written |-> 0]
    /\ visitBase = NoVisitBase
    /\ advances = 0
    /\ events = 0
    /\ LockIdle
    /\ PagesIdle

\* a listener reaches its saveTime / checkLimits; the alarm's ticks are a
\* minute apart, so one soft check at most is in flight
DeliverCheck(kind, duration) ==
    /\ Len(handlers) < MaxHandlers
    /\ kind = "soft" => \A j \in DOMAIN handlers : handlers[j].kind # "soft"
    /\ handlers' = Append(handlers,
            [kind |-> kind, url |-> UrlA, duration |-> duration,
             pc |-> IF kind = "commit" THEN "save" ELSE "read",
             timeToAdd |-> IF kind = "commit" THEN 0 ELSE duration,
             usage |-> [time |-> 0, notifications |-> NoNotifications]])
    /\ UNCHANGED <<storage, lastVisit, activeTab, notified, now, tzOffset, last,
                   session, visitBase, advances, events, mutex, callers,
                   dashboard, report>>

\* commitTime: await saveTime(domain, duration, data._favicon)
CheckSave(i) ==
    /\ handlers[i].pc = "save"
    /\ LET h == handlers[i]
       IN  RaceStep(i, saveTime(World, getDomain(h.url), h.duration,
                                getFavicon(h.url), now),
                    [h EXCEPT !.pc = "read"])

\* checkLimits after the 80% branch: the 100% test on the usage read, the
\* notification, and where the listener waits next
after80(i, w, h) ==
    LET domain == getDomain(h.url)
        limit == getLimit(w.st, domain)
    IN  IF fires100(limit, h.usage, h.usage.time + h.timeToAdd)
        THEN RaceStep(i, Notify(w, "100", domain, now), [h EXCEPT !.pc = "update100"])
        ELSE RaceStep(i, w, [h EXCEPT !.pc = "block"])

\* checkLimits: limit and usage are read, the 80% test is made and the
\* notification created
CheckRead(i) ==
    /\ handlers[i].pc = "read"
    /\ LET domain == getDomain(handlers[i].url)
           limit == getLimit(storage, domain)
           h == [handlers[i] EXCEPT !.usage = getDailyUsage(storage, domain, now)]
       IN  IF fires80(limit, h.usage, h.usage.time + h.timeToAdd)
           THEN RaceStep(i, Notify(World, "80", domain, now),
                         [h EXCEPT !.pc = "update80"])
           ELSE after80(i, World, h)

\* checkLimits: await updateNotificationState(domain, { sent80: true }), then
\* the 100% test
CheckUpdate80(i) ==
    /\ handlers[i].pc = "update80"
    /\ after80(i, updateNotificationState(World, getDomain(handlers[i].url),
                                          "sent80", now),
               handlers[i])

\* checkLimits: await updateNotificationState(domain, { sent100: true })
CheckUpdate100(i) ==
    /\ handlers[i].pc = "update100"
    /\ RaceStep(i, updateNotificationState(World, getDomain(handlers[i].url),
                                           "sent100", now),
                [handlers[i] EXCEPT !.pc = "block"])

\* checkLimits: the block test, the tab query and the redirect
CheckBlock(i) ==
    /\ handlers[i].pc = "block"
    /\ LET h == handlers[i]
           domain == getDomain(h.url)
           limit == getLimit(storage, domain)
       IN  RaceStep(i,
                IF blocksTab(limit, h.usage.time + h.timeToAdd, activeTab, domain)
                THEN TabsUpdate(World, blockedUrl(domain, limit.timeLimit))
                ELSE World,
                [h EXCEPT !.pc = "done"])

NextCheckRace ==
    \/ \E kind \in CheckKinds, duration \in CheckDurations :
            DeliverCheck(kind, duration)
    \/ \E i \in DOMAIN handlers : CheckSave(i)
    \/ \E i \in DOMAIN handlers : CheckRead(i)
    \/ \E i \in DOMAIN handlers : CheckUpdate80(i)
    \/ \E i \in DOMAIN handlers : CheckUpdate100(i)
    \/ \E i \in DOMAIN handlers : CheckBlock(i)

SpecCheckRace == InitCheckRace /\ [][NextCheckRace]_vars

\* C25: under interleaved checkLimits calls for the same domain and day, the
\* 80% notification and the 100% notification are each created at most once
\* for that day.
C25_NotifiedOnce ==
    \A kind \in {"80", "100"} :
        Count(notified, <<kind, Limited, getTodayKey(now)>>) <= 1

\* C26: when two navigation or activation handlers for the same domain, fired
\* less than 5000 ms apart, interleave so that the second makes the debounce
\* test before the first has recorded its visit in _lastVisit, the domain's
\* visit count is still incremented once: the two do not both count a visit.
C26_VisitCountedOnce ==
    \A i \in DOMAIN handlers, j \in DOMAIN handlers :
        (/\ i # j
         /\ getDomain(handlers[i].url) = getDomain(handlers[j].url)
         /\ handlers[j].at - handlers[i].at < VisitDebounceMs
         /\ handlers[j].early)
            => ~(handlers[i].counted /\ handlers[j].counted)

(***************************************************************************)
(* Visits, handlers run one at a time.                                     *)
(***************************************************************************)
\* C27: within 5 seconds a repeated navigation to a domain is not counted as
\* a new visit, navigations to other domains in between or not: while less
\* than 5000 ms have passed since the first event, a domain that has its visit
\* counted is not counted again by a worker whose _lastVisit names a visit.
C27_NoRecountWithin5s ==
    [][\A d \in Domains :
            (/\ now - StartOfClock < VisitDebounceMs
             /\ VisitsAll(storage, d) >= 1
             /\ lastVisit # NoLastVisit)
                => VisitsAll(storage', d) = VisitsAll(storage, d)]_vars

\* the tabs the query of a focused window's active tab can give
FocusTabs == {Tab(url) : url \in NavUrls \cup {NoUrl}} \cup {NoTab}

\* the step has opened a session on url at this instant
OpensSessionOn(url) ==
    /\ storage'.currentUrl = url
    /\ storage'.startTime = now
    /\ storage'.favicon = getFavicon(url)

\* the step has counted no visit
CountsNoVisit ==
    /\ lastVisit' = lastVisit
    /\ \A d \in Domains : VisitsAll(storage', d) = VisitsAll(storage, d)

\* startTracking would redirect the tab: the URL's domain has a blocking
\* limit that today's time has reached
BlockedFor(tab) ==
    blockedOnNavigation([World EXCEPT !.tab = tab], getDomain(tab.url), now)

\* C28 as stated: on window focus and on idle state "active", for every
\* trackable URL of the active tab, the handler opens a session (URL, start
\* time now, favicon) and leaves every visit count and _lastVisit unchanged.
C28_ResumeOpensSession ==
    [][/\ \A tab \in FocusTabs :
            (WindowFocused(tab) /\ getDomain(tab.url) # NoDomain)
                => (OpensSessionOn(tab.url) /\ CountsNoVisit)
       /\ (IdleStateChanged("active") /\ getDomain(activeTab.url) # NoDomain)
                => (OpensSessionOn(activeTab.url) /\ CountsNoVisit)]_vars

\* C28 amended: on window focus and on idle state "active" no visit is
\* counted, and for every trackable URL of the active tab whose domain is not
\* blocked by a used-up limit the handler opens a session (URL, start time
\* now, favicon); for a blocked domain it stores no session.
C28_ResumeAmended ==
    [][/\ \A tab \in FocusTabs :
            WindowFocused(tab) =>
                /\ CountsNoVisit
                /\ (getDomain(tab.url) # NoDomain /\ ~BlockedFor(tab))
                        => OpensSessionOn(tab.url)
                /\ (getDomain(tab.url) # NoDomain /\ BlockedFor(tab))
                        => SessionKept
       /\ IdleStateChanged("active") =>
                /\ CountsNoVisit
                /\ (getDomain(activeTab.url) # NoDomain /\ ~BlockedFor(activeTab))
                        => OpensSessionOn(activeTab.url)
                /\ (getDomain(activeTab.url) # NoDomain /\ BlockedFor(activeTab))
                        => SessionKept]_vars

\* C28 case: a session has just been opened on a domain that is not
\* whitelisted and has no visit counted, as only a resume leaves it
C28_Witness ==
    /\ OpenSession
    /\ storage.startTime = now
    /\ last.nav = NoDomain
    /\ events >= 1
    /\ ~Whitelisted(storage, getDomain(storage.currentUrl))
    /\ VisitsAll(storage, getDomain(storage.currentUrl)) = 0

\* C29: when commitTime runs for an open session whose domain is whitelisted,
\* the commit is discarded entirely: whatever tab is active when the handler
\* starts, commitTime writes no record, creates no notification and
\* redirects no tab.
C29_WhitelistedDiscarded ==
    \A tab \in FocusTabs :
        LET wEnv == [World EXCEPT !.tab = tab]
        IN  (OpenSession /\ Whitelisted(storage, getDomain(storage.currentUrl)))
                => commitTime(wEnv, now) = wEnv

\* the part about the records: the commit for a whitelisted domain writes
\* nothing to the storage
WhitelistedNotWritten ==
    \A tab \in FocusTabs :
        LET wEnv == [World EXCEPT !.tab = tab]
        IN  (OpenSession /\ Whitelisted(storage, getDomain(storage.currentUrl)))
                => commitTime(wEnv, now).st = storage

(***************************************************************************)
(* The time of the records under the mutators.                             *)
(***************************************************************************)
\* durations and domains saveTime is to ignore, and one it is not
IgnoredDurations == {0 - 1000, 0}

\* every stored record has a time of 0 or more
TimeNonNegative ==
    \A k \in RecordKeys(storage) : storage.daily[k[1]][k[2]].time >= 0

\* saveTime with a duration of 0 or less, or with no domain, changes nothing
SaveTimeIgnores ==
    /\ \A domain \in Domains \cup {NoDomain}, duration \in IgnoredDurations :
            saveTime(World, domain, duration, NoFavicon, now) = World
    /\ \A duration \in IgnoredDurations \cup LimitDurations :
            saveTime(World, NoDomain, duration, NoFavicon, now) = World

\* the step keeps every record and lowers the time of none
RecordsKept ==
    \A k \in RecordKeys(storage) :
        /\ k \in RecordKeys(storage')
        /\ storage'.daily[k[1]][k[2]].time >= storage.daily[k[1]][k[2]].time

\* C30: for every day and domain the record's time is 0 or more in every
\* reachable state and never decreases over any sequence of saveTime,
\* incrementVisitCount and notification-flag updates; saveTime with a duration
\* of 0 or less or with an empty domain changes nothing; and no operation
\* deletes a record.
C30_TimeMonotone ==
    /\ [](TimeNonNegative /\ SaveTimeIgnores)
    /\ [][RecordsKept]_vars

\* C30 case: a record holds committed time, a counted visit and a
\* notification flag, and a later day has begun with the record still there
C30_Witness ==
    /\ getTodayKey(now) # getTodayKey(StartOfClock)
    /\ \E k \in RecordKeys(storage) :
            /\ k[1] = getTodayKey(StartOfClock)
            /\ storage.daily[k[1]][k[2]].time >= LimitTime
            /\ storage.daily[k[1]][k[2]].visitCount >= 1
            /\ storage.daily[k[1]][k[2]].notifications.sent100
    /\ \E k \in RecordKeys(storage) : k[1] = getTodayKey(now)

(***************************************************************************)
(* The frame of the mutators.                                              *)
(***************************************************************************)
\* w and v differ at most in the record of the domain under day
SameButRecord(w, v, day, domain) ==
    /\ v.lv = w.lv /\ v.tab = w.tab /\ v.notified = w.notified
    /\ [v.st EXCEPT !.daily = << >>] = [w.st EXCEPT !.daily = << >>]
    /\ DOMAIN v.st.daily \subseteq DOMAIN w.st.daily \cup {day}
    /\ \A other \in DOMAIN w.st.daily :
            other # day => (other \in DOMAIN v.st.daily
                            /\ v.st.daily[other] = w.st.daily[other])
    /\ DOMAIN TodayData(v.st, day) \subseteq DOMAIN TodayData(w.st, day) \cup {domain}
    /\ \A d \in DOMAIN TodayData(w.st, day) :
            /\ d \in DOMAIN TodayData(v.st, day)
            /\ d # domain => TodayData(v.st, day)[d] = TodayData(w.st, day)[d]

FrameFavicons == {NoFavicon, getFavicon(UrlA)}

FrameDurations == {1000, 60000}

\* the notification flags stored in the record of the domain under day
FlagsOn(st, day, domain) ==
    IF <<day, domain>> \in RecordKeys(st) THEN st.daily[day][domain].notifications
    ELSE NoNotifications

\* C31: saveTime(D, d, f) and incrementVisitCount(D, f) change only the
\* record of D under today's key: the other domains' records of today, the
\* other days, and the whitelist, settings, limits and tracking state stay as
\* they are; saveTime leaves D's visit count and notification flags as they
\* are, incrementVisitCount leaves D's time and notification flags.
C31_MutatorFrame ==
    \A domain \in Domains, favicon \in FrameFavicons :
        LET today == getTodayKey(now)
            visited == incrementVisitCount(World, domain, favicon, now)
        IN  /\ SameButRecord(World, visited, today, domain)
            /\ TimeOn(visited.st, today, domain) = TimeOn(storage, today, domain)
            /\ FlagsOn(visited.st, today, domain)
                    = FlagsOn(storage, today, domain)
            /\ \A duration \in FrameDurations :
                    LET saved == saveTime(World, domain, duration, favicon, now)
                    IN  /\ SameButRecord(World, saved, today, domain)
                        /\ VisitsOn(saved.st, today, domain)
                                = VisitsOn(storage, today, domain)
                        /\ FlagsOn(saved.st, today, domain)
                                = FlagsOn(storage, today, domain)

\* C31 case: a handler has just saved time, and there are records of both
\* domains today, a record of an earlier day, and a notification flag set
C31_Witness ==
    /\ last.wrote > 0
    /\ \E day \in DOMAIN storage.daily : day # getTodayKey(now)
    /\ \A d \in Domains : <<getTodayKey(now), d>> \in RecordKeys(storage)
    /\ \E d \in Domains : FlagsOn(storage, getTodayKey(now), d).sent100

(***************************************************************************)
(* withLock with functions that fail.  `return await fn()` sits in a try   *)
(* whose finally calls release(): a function that throws at its read or    *)
(* at its write leaves through the finally, and the promise withLock       *)
(* returned is rejected (failed).                                          *)
(***************************************************************************)
\* fn throws at its getStorageData: nothing is written
LockReadFails(i) ==
    /\ callers[i].pc = "reading"
    /\ callers' = [callers EXCEPT ![i].pc = "releasing", ![i].failed = TRUE]
    /\ UNCHANGED <<storage, lastVisit, activeTab, notified, now, tzOffset, last,
                   session, visitBase, advances, events, mutex, pages>>

\* fn throws at its setStorageData: the write is not made
LockWriteFails(i) ==
    /\ callers[i].pc = "writing"
    /\ callers' = [callers EXCEPT ![i].pc = "releasing", ![i].failed = TRUE]
    /\ UNCHANGED <<storage, lastVisit, activeTab, notified, now, tzOffset, last,
                   session, visitBase, advances, events, mutex, pages>>

NextQueue ==
    \/ NextLock
    \/ \E i \in 1..Len(callers) : LockReadFails(i)
    \/ \E i \in 1..Len(callers) : LockWriteFails(i)

SpecQueue == InitLock /\ [][NextQueue]_vars

\* what the event loop runs of caller i once it can run
LockStep(i) ==
    /\ i \in 1..Len(callers)
    /\ \/ LockEnter(i)
       \/ LockRead(i)
       \/ LockWrite(i)
       \/ LockRelease(i)
       \/ LockReadFails(i)
       \/ LockWriteFails(i)

\* a continuation that can run is run, and a storage callback arrives
SpecQueueFair == SpecQueue /\ \A i \in 1..NumCallers : WF_vars(LockStep(i))

Called(i) == i \in 1..Len(callers)

Completed(i) == Called(i) /\ callers[i].pc = "done"

\* the promise withLock returned to caller i is settled as rejected
Rejected(i) == Completed(i) /\ callers[i].failed

\* C32: a function passed to withLock that throws leaves the lock released:
\* the failure reaches its caller and no other (a caller's promise is
\* rejected exactly when its own function threw), the failed caller completes,
\* and every call made, those queued behind a failed one included, runs its
\* function to completion.
C32_ReleasedOnError ==
    /\ [](\A i \in 1..NumCallers :
            (Called(i) /\ callers[i].failed) => callers[i].pc \in {"releasing", "done"})
    /\ \A i \in 1..NumCallers :
            (Called(i) /\ callers[i].failed) ~> Rejected(i)
    /\ \A j \in 1..NumCallers :
            (Called(j) /\ \E i \in 1..(j - 1) : callers[i].failed) ~> Completed(j)

\* C32 case: the first caller's function threw, and a caller queued behind it
\* has run its function and written
C32_Witness ==
    /\ Rejected(1)
    /\ \E j \in 2..Len(callers) :
            /\ Completed(j)
            /\ ~callers[j].failed
            /\ callers[j].pending.write

\* caller i starts its function in this step
Enters(i) == Called(i) /\ callers[i].pc = "waiting" /\ callers'[i].pc = "reading"

\* C33: every withLock call eventually runs its function and completes, and
\* the functions run in the order of the calls: when a caller's function
\* starts, the function of every earlier caller has completed and that of no
\* later caller has started.
C33_FifoNoStarvation ==
    /\ \A i \in 1..NumCallers : Called(i) ~> Completed(i)
    /\ [][\A i \in 1..NumCallers :
            Enters(i) => /\ \A j \in 1..(i - 1) : callers[j].pc = "done"
                         /\ \A j \in (i + 1)..Len(callers) : callers[j].pc = "waiting"]_vars

\* C33 case: as many calls as the bound allows were made, each chained to
\* the one before it, and all have completed, the last with a write
C33_Witness ==
    /\ AllDone
    /\ \A i \in 1..NumCallers : callers[i].prev = i - 1
    /\ callers[NumCallers].pending.write
    /\ ~callers[NumCallers].failed

(***************************************************************************)
(* addToWhitelist from pages that do not wait for each other.  The call    *)
(* is not made under withLock: it awaits getStorageData("whitelist"),      *)
(* pushes the domain onto the array it got unless the array includes it,   *)
(* and awaits setStorageData of that array.  handlers holds the calls: a   *)
(* call is "reading" until its data arrives, "writing" until the store     *)
(* has taken its array, and then "done"; during is the set of the calls    *)
(* that had not completed when it was made.                                *)
(***************************************************************************)
MaxAdds == 3

AddDomains == {"a.com", "b.com", "c.com"}

InitWhitelist ==
    /\ now = StartOfClock
    /\ tzOffset = 0
    /\ storage \in {InitStorage, [InitStorage EXCEPT !.whitelist = <<"c.com">>]}
    /\ lastVisit = NoLastVisit
    /\ activeTab = Tab(UrlInternal)
    /\ notified = << >>
    /\ last = NoLast
    /\ session = [start |-> NoTime, written |-> 0]
    /\ visitBase = NoVisitBase
    /\ advances = 0
    /\ events = 0
    /\ LockIdle
    /\ PagesIdle

\* handleAddWhitelist: addToWhitelist(newDomain) up to its getStorageData
AddCall(domain) ==
    /\ Len(handlers) < MaxAdds
    /\ handlers' = Append(handlers,
                          [domain |-> domain, pc |-> "reading",
                           whitelist |-> << >>,
                           during |-> {i \in 1..Len(handlers) :
                                        handlers[i].pc # "done"}])
    /\ UNCHANGED <<storage, lastVisit, activeTab, notified, now, tzOffset, last,
                   session, visitBase, advances, events, mutex, callers,
                   dashboard, report>>

\* the whitelist arrives; the domain is pushed unless the array includes it
AddRead(i) ==
    /\ handlers[i].pc = "reading"
    /\ LET whitelist == addToWhitelistFn(storage, handlers[i].domain).whitelist
       IN  handlers' = [handlers EXCEPT
                           ![i].whitelist = whitelist,
                           ![i].pc = IF Includes(storage.whitelist, handlers[i].domain)
                                     THEN "done" ELSE "writing"]
    /\ UNCHANGED <<storage, lastVisit, activeTab, notified, now, tzOffset, last,
                   session, visitBase, advances, events, mutex, callers,
                   dashboard, report>>

\* setStorageData({ whitelist }): the store takes the array of this call
AddWrite(i) ==
    /\ handlers[i].pc = "writing"
    /\ storage' = [storage EXCEPT !.whitelist = handlers[i].whitelist]
    /\ handlers' = [handlers EXCEPT ![i].pc = "done"]
    /\ UNCHANGED <<lastVisit, activeTab, notified, now, tzOffset, last,
                   session, visitBase, advances, events, mutex, callers,
                   dashboard, report>>

NextWhitelist ==
    \/ \E domain \in AddDomains : AddCall(domain)
    \/ \E i \in 1..Len(handlers) : AddRead(i)
    \/ \E i \in 1..Len(handlers) : AddWrite(i)

SpecWhitelist == InitWhitelist /\ [][NextWhitelist]_vars

NoDuplicates(seq) == \A i, j \in 1..Len(seq) : seq[i] = seq[j] => i = j

\* C34: once two addToWhitelist calls for distinct domains, issued without
\* awaiting each other, have both completed, the stored whitelist contains
\* both domains; and the stored whitelist never contains a domain twice.
C34_BothAddsTakeEffect ==
    /\ NoDuplicates(storage.whitelist)
    /\ \A i, j \in 1..Len(handlers) :
            (/\ i < j
             /\ i \in handlers[j].during
             /\ handlers[i].domain # handlers[j].domain
             /\ \A k \in 1..Len(handlers) : handlers[k].pc = "done")
                => /\ Includes(storage.whitelist, handlers[i].domain)
                   /\ Includes(storage.whitelist, handlers[j].domain)

(***************************************************************************)
(* The trend of a period in a zone with a change of clock: the reports'    *)
(* model, started in the zone of DstOffset or in UTC.                      *)
(***************************************************************************)
InitTrend ==
    /\ now = keyTime(ReportDay)
    /\ tzOffset \in {DstOffset, 0}
    /\ \E offsets \in HistorySets : storage = History(offsets, getTodayKey(now))
    /\ lastVisit = NoLastVisit
    /\ activeTab = Tab(UrlInternal)
    /\ notified = << >>
    /\ last = NoLast
    /\ session = [start |-> NoTime, written |-> 0]
    /\ visitBase = NoVisitBase
    /\ advances = 0
    /\ events = 0
    /\ LockIdle
    /\ PagesIdle

SpecTrend == InitTrend /\ [][NextReports]_vars

\* the stored days whose keys the previous period of the code admits
PreviousDays(startDay, endDay) ==
    LET p == previousPeriod(keyDate(startDay), (endDay - startDay) + 1)
    IN  {day \in DOMAIN storage.daily :
            ~Before(keyDate(day), p.prevStart) /\ ~Before(p.prevEnd, keyDate(day))}

\* C35: getTrendMetrics(domain, start, end) compares with the period
\* [start - N, start - 1], N = totalDays the number of days of [start, end]:
\* the stored days counted as previous are those of that period, none of them
\* is a day of [start, end], the changes are those against the totals of
\* that period, and every day of [start, end] with a record of the domain is
\* counted in activeDays, totalTime and totalVisits.
C35_PreviousWindow ==
    (report.fn = "getTrendMetrics" /\ report.startDay <= report.endDay) =>
        LET r == report.result
            n == report.endDay - report.startDay + 1
            lo == report.startDay - n
            hi == report.startDay - 1
            current == {day \in DOMAIN storage.daily :
                            /\ report.startDay <= day /\ day <= report.endDay
                            /\ report.domain \in DOMAIN storage.daily[day]}
            time == periodTime(report.domain, report.startDay, report.endDay)
            visits == periodVisits(report.domain, report.startDay, report.endDay)
            prevTime == periodTime(report.domain, lo, hi)
            prevVisits == periodVisits(report.domain, lo, hi)
        IN  /\ r.totalDays = n
            /\ PreviousDays(report.startDay, report.endDay)
                    = {day \in DOMAIN storage.daily : lo <= day /\ day <= hi}
            /\ r.activeDays = Cardinality(current)
            /\ r.totalTime = time
            /\ r.totalVisits = visits
            /\ IF prevTime = 0 THEN isZero(r.timeChange)
               ELSE isPercentChange(r.timeChange, time, prevTime)
            /\ IF prevVisits = 0 THEN isZero(r.visitsChange)
               ELSE isPercentChange(r.visitsChange, visits, prevVisits)

(***************************************************************************)
(* The insights of a range.                                                *)
(***************************************************************************)
\* the total time of all the records of the day
TotalOn(day) ==
    SumOf([d \in Domains |-> TimeOn(storage, day, d)], Domains)

\* the included days with a positive total
PositiveDays(range) ==
    {day \in DOMAIN storage.daily : includes(range, day, now) /\ TotalOn(day) > 0}

\* C36: over the days the range includes, mostActiveDay of getInsights is a
\* day whose total over all domains is the maximum, null when no included
\* day has a positive total; dailyAverage is the sum of the positive totals
\* divided by the number of days with a positive total, 0 when there is
\* none; and dailyAverage <= mostActiveDay.time when mostActiveDay is not null.
C36_Insights ==
    report.fn = "getInsights" =>
        LET r == report.result
            positive == PositiveDays(report.range)
            sum == SumOf([day \in positive |-> TotalOn(day)], positive)
        IN  IF positive = {}
            THEN r.mostActiveDay = NoActiveDay /\ isZero(r.dailyAverage)
            ELSE /\ r.mostActiveDay.found
                 /\ r.mostActiveDay.date \in positive
                 /\ r.mostActiveDay.time = TotalOn(r.mostActiveDay.date)
                 /\ \A day \in positive : TotalOn(day) <= r.mostActiveDay.time
                 /\ r.dailyAverage = [num |-> sum, den |-> Cardinality(positive)]
                 /\ r.dailyAverage.num <= r.mostActiveDay.time * r.dailyAverage.den

\* C36 case: the insights of a range that includes days of different
\* positive totals and a day without time, and leaves a stored day out
C36_Witness ==
    /\ report.fn = "getInsights"
    /\ report.result.mostActiveDay.found
    /\ \E day \in PositiveDays(report.range) :
            TotalOn(day) < report.result.mostActiveDay.time
    /\ \E day \in DOMAIN storage.daily :
            includes(report.range, day, now) /\ TotalOn(day) = 0
    /\ \E day \in DOMAIN storage.daily : ~includes(report.range, day, now)

\* C37: for the same storage, range and instant, the totalTime of
\* getAggregatedData is the dailyAverage of getInsights multiplied by the
\* number of included days with a positive total.
C37_InsightsAgree ==
    \A range \in ReportRanges :
        LET insights == getInsights(storage, range, now)
            aggregated == getAggregatedData(storage, range, now)
        IN  insights.dailyAverage.num * Cardinality(PositiveDays(range))
                = aggregated.totalTime * insights.dailyAverage.den

\* C37 case: the insights were asked for a range with two days of positive
\* total, after time was committed to a day of the range
C37_Witness ==
    /\ report.fn = "getInsights"
    /\ events > 0
    /\ Cardinality(PositiveDays(report.range)) >= 2
    /\ \E day \in DOMAIN storage.daily : ~includes(report.range, day, now)

(***************************************************************************)
(* The ranges as a chain.                                                  *)
(***************************************************************************)
\* each range with the next wider one
RangeChain ==
    {<<"today", "week">>, <<"week", "month">>, <<"month", "year">>,
     <<"year", "all-time">>}

\* distances in days from today at and around the limits of the ranges
LimitDistances == {0, 1, 2, 6, 7, 8, 29, 30, 31, 364, 365, 366}

\* day keys at these distances before and after today, and the stored ones
CandidateDays ==
    DOMAIN storage.daily
        \cup {getTodayKey(now) - k : k \in LimitDistances}
        \cup {getTodayKey(now) + k : k \in LimitDistances}

\* the time byDomain gives for the domain, 0 without an entry
timeIn(byDomain, domain) ==
    LET entries == {i \in Indices(byDomain) : byDomain[i].domain = domain}
    IN  SumOf([i \in entries |-> byDomain[i].time], entries)

\* C38: the day keys included by a range are included by the next wider
\* range, along today, week, month, year, all-time; and so totalTime and the
\* time of every domain of getAggregatedData do not decrease along the chain.
C38_RangesNested ==
    \A pair \in RangeChain :
        LET narrow == getAggregatedData(storage, pair[1], now)
            wide == getAggregatedData(storage, pair[2], now)
        IN  /\ \A day \in CandidateDays :
                    includes(pair[1], day, now) => includes(pair[2], day, now)
            /\ narrow.totalTime <= wide.totalTime
            /\ \A domain \in Domains :
                    timeIn(narrow.byDomain, domain) <= timeIn(wide.byDomain, domain)

\* C38 case: getAggregatedData was asked for the week, and the storage holds
\* a record of today, one of the week before today, one of the month
\* outside the week and one of the year outside the month
C38_Witness ==
    /\ report.fn = "getAggregatedData"
    /\ report.range = "week"
    /\ \E day \in DOMAIN storage.daily : includes("today", day, now)
    /\ \E day \in DOMAIN storage.daily :
            includes("week", day, now) /\ ~includes("today", day, now)
    /\ \E day \in DOMAIN storage.daily :
            includes("month", day, now) /\ ~includes("week", day, now)
    /\ \E day \in DOMAIN storage.daily :
            includes("year", day, now) /\ ~includes("month", day, now)
    /\ report.result.totalTime
            < getAggregatedData(storage, "month", now).totalTime

(***************************************************************************)
(* The site analysis of a domain.                                          *)
(***************************************************************************)
\* the day keys that hold a record of the domain
DaysOf(domain) == {day \in DOMAIN storage.daily : domain \in DOMAIN storage.daily[day]}

\* C39: getSiteAnalysisData(domain) returns null exactly when no day key
\* holds a record of the domain; otherwise heatMapData has 182 entries, for
\* 182 consecutive days in ascending order of which the last is today, an
\* entry has the time of the day's record, and time 0 and intensity 0 for a
\* day without one; totalTime and totalVisits are the sums over all the days
\* with a record, and firstUsed is the earliest of them.
C39_SiteAnalysis ==
    report.fn = "getSiteAnalysisData" =>
        LET r == report.result
            days == DaysOf(report.domain)
        IN  /\ r.found <=> days # {}
            /\ r.found =>
                /\ Len(r.heatMapData) = 182
                /\ r.heatMapData[182].date = getTodayKey(now)
                /\ \A n \in 1..181 :
                        r.heatMapData[n + 1].date = r.heatMapData[n].date + 1
                /\ \A n \in 1..182 :
                        LET e == r.heatMapData[n]
                        IN  /\ e.time = TimeOn(storage, e.date, report.domain)
                            /\ e.date \notin days => e.time = 0 /\ e.intensity = 0
                /\ r.totalTime =
                        SumOf([day \in days |-> TimeOn(storage, day, report.domain)], days)
                /\ r.totalVisits =
                        SumOf([day \in days |-> VisitsOn(storage, day, report.domain)], days)
                /\ r.firstUsed \in days
                /\ \A day \in days : r.firstUsed <= day

\* C39 case: the analysis of a domain with records on several days, today
\* among them and yesterday not
C39_Witness ==
    /\ report.fn = "getSiteAnalysisData"
    /\ report.result.found
    /\ Cardinality(DaysOf(report.domain)) >= 3
    /\ getTodayKey(now) \in DaysOf(report.domain)
    /\ report.result.firstUsed < getTodayKey(now)
    /\ report.result.heatMapData[182].time > 0
    /\ report.result.heatMapData[181].time = 0

(***************************************************************************)
(* The list of domains of a range.                                         *)
(***************************************************************************)
\* the included days that hold a record of the domain
IncludedDaysOf(range, domain) ==
    {day \in DaysOf(domain) : includes(range, day, now)}

\* C40: byDomain of getAggregatedData(range) has one entry for each domain
\* with a record on an included day and no other entry, in order of
\* non-increasing time; the visitCount of an entry is the sum of the domain's
\* visit counts over the included days, and its lastVisited the latest
\* lastVisited of the domain's records of those days.
C40_ByDomain ==
    report.fn = "getAggregatedData" =>
        LET byDomain == report.result.byDomain
        IN  /\ \A domain \in Domains :
                    Cardinality({i \in Indices(byDomain) : byDomain[i].domain = domain})
                        = IF IncludedDaysOf(report.range, domain) # {} THEN 1 ELSE 0
            /\ \A i \in Indices(byDomain) : byDomain[i].domain \in Domains
            /\ \A i, j \in Indices(byDomain) :
                    i < j => byDomain[i].time >= byDomain[j].time
            /\ \A i \in Indices(byDomain) :
                    LET days == IncludedDaysOf(report.range, byDomain[i].domain)
                        visited == [day \in days |->
                                        storage.daily[day][byDomain[i].domain].lastVisited]
                    IN  /\ byDomain[i].visitCount =
                                SumOf([day \in days |->
                                        VisitsOn(storage, day, byDomain[i].domain)], days)
                        /\ \E day \in days : byDomain[i].lastVisited = visited[day]
                        /\ \A day \in days : byDomain[i].lastVisited >= visited[day]

\* C40 case: a list of two domains of different time, the first with visits
\* on several included days, for a range that leaves a stored day out
C40_Witness ==
    /\ report.fn = "getAggregatedData"
    /\ Len(report.result.byDomain) = 2
    /\ report.result.byDomain[1].time > report.result.byDomain[2].time
    /\ report.result.byDomain[1].visitCount >= 2
    /\ Cardinality(IncludedDaysOf(report.range, report.result.byDomain[1].domain)) >= 2
    /\ \E day \in DOMAIN storage.daily : ~includes(report.range, day, now)

====
